---------------------------- MODULE Spec2Model ----------------------------
(***************************************************************************)
(* A model of pLarianSaveTools: the LSF binary codec, the LSX (XML) codec  *)
(* and the LSV package codec, as state machines over which the properties  *)
(* of the specification are checked with TLC.                              *)
(*                                                                         *)
(* Conventions                                                             *)
(*   - a JavaScript string is a sequence of one-character strings          *)
(*     (<<"a","b">>), so that escaping, hashing and UTF-8 encoding work on *)
(*     characters; only ASCII characters occur, one byte each;             *)
(*   - a Buffer is a sequence of bytes 0..255; the node and attribute      *)
(*     tables are sequences of 32-bit little-endian words, one integer     *)
(*     per word;                                                           *)
(*   - a dynamically typed attribute value is a record tagged by "k":      *)
(*     "num" (number), "bool", "str" (string), "ts" (translated string     *)
(*     object);                                                            *)
(*   - an exception is the record [err |-> <message>] in place of the      *)
(*     result;                                                             *)
(*   - the repository holds several revisions of the LSX writer and of     *)
(*     the packer; each is modelled under the name of its file.            *)
(***************************************************************************)
EXTENDS Integers, Sequences, FiniteSets, TLC

-----------------------------------------------------------------------------
(* Arithmetic helpers: JavaScript's bit operations on small operands.      *)

RECURSIVE Pow2(_)
Pow2(n) == IF n = 0 THEN 1 ELSE 2 * Pow2(n - 1)

\* a ^ b for operands below 2^bits
RECURSIVE BitXor(_, _, _)
BitXor(a, b, bits) ==
    IF bits = 0 THEN 0
    ELSE ((a + b) % 2) + 2 * BitXor(a \div 2, b \div 2, bits - 1)

Min(a, b) == IF a < b THEN a ELSE b
Max(a, b) == IF a > b THEN a ELSE b

\* Math.ceil(a / b) * b for a >= 0, b > 0
CeilTo(a, b) == ((a + b - 1) \div b) * b

RECURSIVE SeqSum(_)
SeqSum(s) == IF s = <<>> THEN 0 ELSE Head(s) + SeqSum(Tail(s))

RECURSIVE Flatten(_)
Flatten(ss) == IF ss = <<>> THEN <<>> ELSE Head(ss) \o Flatten(Tail(ss))

SeqMap(Op(_), s) == [i \in 1..Len(s) |-> Op(s[i])]

\* Array.prototype.indexOf: the 0-based index of the first x, or -1
IndexOf(s, x) ==
    IF \E i \in 1..Len(s) : s[i] = x
    THEN (CHOOSE i \in 1..Len(s) : s[i] = x /\ \A j \in 1..(i - 1) : s[j] # x) - 1
    ELSE -1

IsErr(r) == "err" \in DOMAIN r

-----------------------------------------------------------------------------
(* Characters.  CharCode is String.prototype.charCodeAt for the alphabet   *)
(* of the model, which is also the character's single UTF-8 byte.          *)

Digits == <<"0","1","2","3","4","5","6","7","8","9">>
HexDigits == Digits \o <<"a","b","c","d","e","f">>

CharTable ==
    <<
       <<" ",32>>, <<"!",33>>, <<"\"",34>>, <<"#",35>>, 
       <<"&",38>>, <<"'",39>>, <<"+",43>>,
       <<",",44>>, <<"-",45>>, <<".",46>>, <<"/",47>>, <<"0",48>>, <<"1",49>>,
       <<"2",50>>, <<"3",51>>, <<"4",52>>, <<"5",53>>, <<"6",54>>, <<"7",55>>,
       <<"8",56>>, <<"9",57>>, <<":",58>>, <<";",59>>, <<"<",60>>, <<"=",61>>,
       <<">",62>>, <<"?",63>>, <<"@",64>>, <<"A",65>>, <<"B",66>>, <<"C",67>>,
       <<"D",68>>, <<"E",69>>, <<"F",70>>, <<"G",71>>, <<"H",72>>, <<"I",73>>,
       <<"J",74>>, <<"K",75>>, <<"L",76>>, <<"M",77>>, <<"N",78>>, <<"O",79>>,
       <<"P",80>>, <<"Q",81>>, <<"R",82>>, <<"S",83>>, <<"T",84>>, <<"U",85>>,
       <<"V",86>>, <<"W",87>>, <<"X",88>>, <<"Y",89>>, <<"Z",90>>, 
       <<"_",95>>, <<"a",97>>,
       <<"b",98>>, <<"c",99>>, <<"d",100>>, <<"e",101>>, <<"f",102>>, <<"g",103>>,
       <<"h",104>>, <<"i",105>>, <<"j",106>>, <<"k",107>>, <<"l",108>>, <<"m",109>>,
       <<"n",110>>, <<"o",111>>, <<"p",112>>, <<"q",113>>, <<"r",114>>, <<"s",115>>,
       <<"t",116>>, <<"u",117>>, <<"v",118>>, <<"w",119>>, <<"x",120>>, <<"y",121>>,
       <<"z",122>>, <<"|",124>>, <<"~",126>> >>

Chars == {CharTable[i][1] : i \in 1..Len(CharTable)}

CharCode(c) ==
    LET i == CHOOSE j \in 1..Len(CharTable) : CharTable[j][1] = c
    IN  CharTable[i][2]

CharOf(code) ==
    LET i == CHOOSE j \in 1..Len(CharTable) : CharTable[j][2] = code
    IN  CharTable[i][1]

-----------------------------------------------------------------------------
(* enum NodeAttributeType                                                  *)

T_None == 0
T_Byte == 1
T_Short == 2
T_UShort == 3
T_Int == 4
T_UInt == 5
T_Float == 6
T_Double == 7
T_IVec2 == 8
T_IVec3 == 9
T_IVec4 == 10
T_Vec2 == 11
T_Vec3 == 12
T_Vec4 == 13
T_Mat2 == 14
T_Mat3 == 15
T_Mat3x4 == 16
T_Mat4x3 == 17
T_Mat4 == 18
T_Bool == 19
T_String == 20
T_Path == 21
T_FixedString == 22
T_LSString == 23
T_ULongLong == 24
T_ScratchBuffer == 25
T_Long == 26
T_Int8 == 27
T_TranslatedString == 28
T_WString == 29
T_LSWString == 30
T_UUID == 31
T_Int64 == 32
T_TranslatedFSString == 33

\* NodeAttributeType[t]: the enum member names, indexed by t + 1
NodeAttributeTypeName ==
    << <<"N","o","n","e">>,
       <<"B","y","t","e">>,
       <<"S","h","o","r","t">>,
       <<"U","S","h","o","r","t">>,
       <<"I","n","t">>,
       <<"U","I","n","t">>,
       <<"F","l","o","a","t">>,
       <<"D","o","u","b","l","e">>,
       <<"I","V","e","c","2">>,
       <<"I","V","e","c","3">>,
       <<"I","V","e","c","4">>,
       <<"V","e","c","2">>,
       <<"V","e","c","3">>,
       <<"V","e","c","4">>,
       <<"M","a","t","2">>,
       <<"M","a","t","3">>,
       <<"M","a","t","3","x","4">>,
       <<"M","a","t","4","x","3">>,
       <<"M","a","t","4">>,
       <<"B","o","o","l">>,
       <<"S","t","r","i","n","g">>,
       <<"P","a","t","h">>,
       <<"F","i","x","e","d","S","t","r","i","n","g">>,
       <<"L","S","S","t","r","i","n","g">>,
       <<"U","L","o","n","g","L","o","n","g">>,
       <<"S","c","r","a","t","c","h","B","u","f","f","e","r">>,
       <<"L","o","n","g">>,
       <<"I","n","t","8">>,
       <<"T","r","a","n","s","l","a","t","e","d","S","t","r","i","n","g">>,
       <<"W","S","t","r","i","n","g">>,
       <<"L","S","W","S","t","r","i","n","g">>,
       <<"U","U","I","D">>,
       <<"I","n","t","6","4">>,
       <<"T","r","a","n","s","l","a","t","e","d","F","S","S","t","r","i","n","g">> >>

-----------------------------------------------------------------------------
(* JavaScript values.                                                      *)

NumV(n) == [k |-> "num", n |-> n]
BoolV(b) == [k |-> "bool", b |-> b]
StrV(s) == [k |-> "str", s |-> s]
\* { value, handle }, the value of a TranslatedString or TranslatedFSString
TsV(value, handle) == [k |-> "ts", value |-> value, handle |-> handle]
\* { value, handle, arguments }
FsV(value, handle, args) ==
    [k |-> "ts", value |-> value, handle |-> handle, arguments |-> args]

RECURSIVE NatToStr(_)
NatToStr(n) ==
    IF n < 10 THEN <<Digits[n + 1]>>
    ELSE NatToStr(n \div 10) \o <<Digits[(n % 10) + 1]>>

\* String(n) for an integer n
IntToStr(n) == IF n < 0 THEN <<"-">> \o NatToStr(0 - n) ELSE NatToStr(n)

\* String(value)
JsString(v) ==
    CASE v.k = "num" -> IntToStr(v.n)
      [] v.k = "bool" -> IF v.b THEN <<"t","r","u","e">> ELSE <<"f","a","l","s","e">>
      [] v.k = "str" -> v.s
      [] v.k = "ts" -> <<"[","o","b","j","e","c","t"," ","O","b","j","e","c","t","]">>

\* the truthiness of a value
Truthy(v) ==
    CASE v.k = "num" -> v.n # 0
      [] v.k = "bool" -> v.b
      [] v.k = "str" -> Len(v.s) > 0
      [] v.k = "ts" -> TRUE

\* String.prototype.includes
Includes(s, sub) ==
    \E i \in 0..(Len(s) - Len(sub)) : SubSeq(s, i + 1, i + Len(sub)) = sub

IsDigit(c) == \E i \in 1..10 : Digits[i] = c
DigitVal(c) == (CHOOSE i \in 1..10 : Digits[i] = c) - 1

\* a hexadecimal digit, either case, and its value
HexVal(c) ==
    LET code == CharCode(c)
    IN  IF code >= 48 /\ code <= 57 THEN code - 48
        ELSE IF code >= 97 /\ code <= 102 THEN code - 87
        ELSE IF code >= 65 /\ code <= 70 THEN code - 55
        ELSE -1
IsHex(c) == HexVal(c) >= 0

-----------------------------------------------------------------------------
(* LSX writer: escaping.                                                   *)

\* escapeXml of the current writer: only < > & " are replaced
escapeXmlChar(c) ==
    CASE c = "<" -> <<"&","l","t",";">>
      [] c = ">" -> <<"&","g","t",";">>
      [] c = "&" -> <<"&","a","m","p",";">>
      [] c = "\"" -> <<"&","q","u","o","t",";">>
      [] OTHER -> <<c>>

escapeXml(unsafe) == Flatten([i \in 1..Len(unsafe) |-> escapeXmlChar(unsafe[i])])

\* escapeXml of src/lsx/lsx-writer.ts: the apostrophe is replaced as well
escapeXmlCharOld(c) ==
    CASE c = "<" -> <<"&","l","t",";">>
      [] c = ">" -> <<"&","g","t",";">>
      [] c = "&" -> <<"&","a","m","p",";">>
      [] c = "\"" -> <<"&","q","u","o","t",";">>
      [] c = "'" -> <<"&","a","p","o","s",";">>
      [] OTHER -> <<c>>

escapeXmlOld(unsafe) ==
    Flatten([i \in 1..Len(unsafe) |-> escapeXmlCharOld(unsafe[i])])

\* the escaping of the writer revision rev
Escape(rev, s) == IF rev = "old" THEN escapeXmlOld(s) ELSE escapeXml(s)

-----------------------------------------------------------------------------
(* LSX writer: the document is the sequence of the tags the writer emits,  *)
(* one per line; an attribute value is the text between the quotes.        *)

OpenTag(tag, attrs) == [t |-> "open", tag |-> tag, attrs |-> attrs]
EmptyTag(tag, attrs) == [t |-> "empty", tag |-> tag, attrs |-> attrs]
CloseTag(tag) == [t |-> "close", tag |-> tag, attrs |-> <<>>]

\* formatUuidForLsx: bswap_guids applied to the text of a UUID
IsUuidText(u) ==
    /\ Len(u) = 36
    /\ \A i \in 1..36 :
          IF i \in {9, 14, 19, 24} THEN u[i] = "-" ELSE IsHex(u[i])

formatUuidForLsx(uuid) ==
    IF ~IsUuidText(uuid) THEN uuid
    ELSE <<uuid[7], uuid[8], uuid[5], uuid[6], uuid[3], uuid[4], uuid[1], uuid[2], "-",
           uuid[12], uuid[13], uuid[10], uuid[11], "-",
           uuid[17], uuid[18], uuid[15], uuid[16]>> \o SubSeq(uuid, 19, 36)

HasArgs(ts) == "arguments" \in DOMAIN ts /\ Len(ts.arguments) > 0

RECURSIVE serializeTranslatedFSStringArgs(_, _)
serializeTranslatedFSStringArgs(args, rev) ==
    IF args = <<>> THEN <<>>
    ELSE
      LET arg == Head(args)
          kv == << <<"key", Escape(rev, arg.key)>>, <<"value", Escape(rev, arg.value)>> >>
          one ==
            IF "string" \in DOMAIN arg
            THEN LET s == arg.string
                     sv == << <<"value", Escape(rev, s.value)>>,
                              <<"handle", Escape(rev, s.handle)>> >>
                 IN  <<OpenTag("argument", kv)>>
                     \o (IF HasArgs(s)
                         THEN <<OpenTag("string",
                                   sv \o << <<"arguments", IntToStr(Len(s.arguments))>> >>)>>
                              \o serializeTranslatedFSStringArgs(s.arguments, rev)
                              \o <<CloseTag("string")>>
                         ELSE <<EmptyTag("string", sv \o << <<"arguments", <<"0">> >> >>)>>)
                     \o <<CloseTag("argument")>>
            ELSE <<EmptyTag("argument", kv)>>
      IN  one \o serializeTranslatedFSStringArgs(Tail(args), rev)

\* the type attribute: String(attr.type), or the enum member's name
TypeStr(type, opts) ==
    IF opts.numericTypes THEN IntToStr(type)
    ELSE IF type >= 0 /\ type <= 33 THEN NodeAttributeTypeName[type + 1]
    ELSE <<"U","n","k","n","o","w","n">>

\* serializeAttribute of the current writer; Float, Double and Vec values
\* take the formatFloat branch and are not part of this value domain
serializeAttribute(name, attr, opts) ==
    LET typeStr == TypeStr(attr.type, opts)
        idType == << <<"id", escapeXml(name)>>, <<"type", typeStr>> >>
        plain(valueStr) ==
            <<EmptyTag("attribute", idType \o << <<"value", escapeXml(valueStr)>> >>)>>
    IN  IF attr.type = T_TranslatedString \/ attr.type = T_TranslatedFSString
        THEN IF attr.value.k = "ts"
             THEN LET ts == attr.value
                      isFS == attr.type = T_TranslatedFSString
                      handleAttr == IF Len(ts.handle) > 0
                                    THEN << <<"handle", escapeXml(ts.handle)>> >> ELSE <<>>
                      argsCount == IF "arguments" \in DOMAIN ts THEN Len(ts.arguments) ELSE 0
                      argsAttr == IF isFS THEN << <<"arguments", IntToStr(argsCount)>> >> ELSE <<>>
                      valuePart == << <<"value", escapeXml(ts.value)>> >>
                      attrs == IF isFS THEN valuePart \o handleAttr \o argsAttr
                               ELSE handleAttr \o valuePart
                  IN  IF HasArgs(ts)
                      THEN <<OpenTag("attribute", idType \o attrs), OpenTag("arguments", <<>>)>>
                           \o serializeTranslatedFSStringArgs(ts.arguments, "cur")
                           \o <<CloseTag("arguments"), CloseTag("attribute")>>
                      ELSE <<EmptyTag("attribute", idType \o attrs)>>
             ELSE plain(JsString(attr.value))
        ELSE IF attr.type = T_Bool
        THEN plain(IF Truthy(attr.value) THEN <<"T","r","u","e">> ELSE <<"F","a","l","s","e">>)
        ELSE IF attr.type = T_UUID /\ attr.value.k = "str"
                /\ Includes(opts.lslibMeta, <<"b","s","w","a","p","_","g","u","i","d","s">>)
        THEN plain(formatUuidForLsx(attr.value.s))
        ELSE IF attr.type = T_Byte /\ attr.value.k = "num"
        THEN plain(IntToStr(attr.value.n % 256))
        ELSE plain(JsString(attr.value))

\* serializeAttribute of src/lsx/lsx-writer.ts: no UUID and no Byte branch,
\* handle and arguments precede the value
serializeAttributeOld(name, attr, opts) ==
    LET typeStr == TypeStr(attr.type, opts)
        idType == << <<"id", escapeXmlOld(name)>>, <<"type", typeStr>> >>
        plain(valueStr, extraAttrs) ==
            <<EmptyTag("attribute",
                idType \o << <<"value", escapeXmlOld(valueStr)>> >> \o extraAttrs)>>
    IN  IF attr.type = T_TranslatedString \/ attr.type = T_TranslatedFSString
        THEN IF attr.value.k = "ts"
             THEN LET ts == attr.value
                      handleAttr == IF Len(ts.handle) > 0
                                    THEN << <<"handle", escapeXmlOld(ts.handle)>> >> ELSE <<>>
                      valuePart == << <<"value", escapeXmlOld(ts.value)>> >>
                  IN  IF HasArgs(ts)
                      THEN <<OpenTag("attribute",
                               idType \o handleAttr
                               \o << <<"arguments", IntToStr(Len(ts.arguments))>> >>
                               \o valuePart),
                             OpenTag("arguments", <<>>)>>
                           \o serializeTranslatedFSStringArgs(ts.arguments, "old")
                           \o <<CloseTag("arguments"), CloseTag("attribute")>>
                      ELSE <<EmptyTag("attribute", idType \o handleAttr \o valuePart)>>
             ELSE <<EmptyTag("attribute",
                      idType \o << <<"value", escapeXmlOld(JsString(attr.value))>> >>)>>
        ELSE IF attr.type = T_Bool
        THEN plain(IF Truthy(attr.value) THEN <<"T","r","u","e">> ELSE <<"F","a","l","s","e">>,
                   <<>>)
        ELSE plain(JsString(attr.value), <<>>)

\* node.key ? ` key="..."` : ""
KeyAttr(node, rev) ==
    IF node.key # <<>> /\ Len(node.key[1]) > 0
    THEN << <<"key", Escape(rev, node.key[1])>> >> ELSE <<>>

\* serializeNode of the current writer: an empty node is one self-closing tag
RECURSIVE serializeNode(_, _)
serializeNode(node, opts) ==
    LET idKey == << <<"id", escapeXml(node.name)>> >> \o KeyAttr(node, "cur")
        hasAttrs == Len(node.attributes) > 0
        hasChildren == Len(node.children) > 0
    IN  IF ~hasAttrs /\ ~hasChildren
        THEN <<EmptyTag("node", idKey)>>
        ELSE <<OpenTag("node", idKey)>>
             \o Flatten([i \in 1..Len(node.attributes) |->
                   serializeAttribute(node.attributes[i].name, node.attributes[i], opts)])
             \o (IF hasChildren
                 THEN <<OpenTag("children", <<>>)>>
                      \o Flatten([i \in 1..Len(node.children) |->
                            serializeNode(node.children[i], opts)])
                      \o <<CloseTag("children")>>
                 ELSE <<>>)
             \o <<CloseTag("node")>>

\* serializeNode of src/lsx/lsx-writer.ts: always an opening and a closing tag
RECURSIVE serializeNodeOld(_, _)
serializeNodeOld(node, opts) ==
    LET idKey == << <<"id", escapeXmlOld(node.name)>> >> \o KeyAttr(node, "old")
    IN  <<OpenTag("node", idKey)>>
        \o Flatten([i \in 1..Len(node.attributes) |->
              serializeAttributeOld(node.attributes[i].name, node.attributes[i], opts)])
        \o (IF Len(node.children) > 0
            THEN <<OpenTag("children", <<>>)>>
                 \o Flatten([i \in 1..Len(node.children) |->
                       serializeNodeOld(node.children[i], opts)])
                 \o <<CloseTag("children")>>
            ELSE <<>>)
        \o <<CloseTag("node")>>

LslibMeta == <<"v","1",",","b","s","w","a","p","_","g","u","i","d","s">>
SaveName == <<"s","a","v","e">>

\* convertLsfToLsx(root, version): the tags of the document, after the XML
\* declaration
convertLsfToLsx(root, v) ==
    LET opts == [numericTypes |-> v.major < 4, lslibMeta |-> LslibMeta]
        regions == IF root.name = SaveName /\ Len(root.children) > 0
                   THEN root.children ELSE <<root>>
    IN  <<OpenTag("save", <<>>),
          EmptyTag("version",
            << <<"major", IntToStr(v.major)>>, <<"minor", IntToStr(v.minor)>>,
               <<"revision", IntToStr(v.revision)>>, <<"build", IntToStr(v.build)>>,
               <<"lslib_meta", opts.lslibMeta>> >>)>>
        \o Flatten([i \in 1..Len(regions) |->
              <<OpenTag("region", << <<"id", escapeXml(regions[i].name)>> >>)>>
              \o serializeNode(regions[i], opts)
              \o <<CloseTag("region")>>])
        \o <<CloseTag("save")>>

-----------------------------------------------------------------------------
(* Trees.  An LSFNode is [name, key, attributes, children]: key is <<>>    *)
(* when the property is absent and <<k>> when it is k; attributes is the   *)
(* object's own properties in Object.keys order, each an LSFAttribute      *)
(* [name, type, value].                                                    *)

Node(name, attributes, children) ==
    [name |-> name, key |-> <<>>, attributes |-> attributes, children |-> children]

Attribute(name, type, value) == [name |-> name, type |-> type, value |-> value]

RECURSIVE StrToNat(_)
StrToNat(s) ==
    IF s = <<>> THEN 0 ELSE 10 * StrToNat(SubSeq(s, 1, Len(s) - 1)) + DigitVal(s[Len(s)])

\* a property name that is an array index: JavaScript enumerates these
\* first, in ascending order (names of up to 9 digits)
IsArrayIndex(s) ==
    /\ Len(s) > 0 /\ Len(s) <= 9
    /\ \A i \in 1..Len(s) : IsDigit(s[i])
    /\ (Len(s) = 1 \/ s[1] # "0")

\* obj[attr.name] = attr
ObjSet(obj, attr) ==
    IF \E i \in 1..Len(obj) : obj[i].name = attr.name
    THEN [i \in 1..Len(obj) |-> IF obj[i].name = attr.name THEN attr ELSE obj[i]]
    ELSE IF IsArrayIndex(attr.name)
    THEN LET before(i) == IsArrayIndex(obj[i].name)
                          /\ StrToNat(obj[i].name) < StrToNat(attr.name)
             n == Cardinality({i \in 1..Len(obj) : before(i)})
         IN  SubSeq(obj, 1, n) \o <<attr>> \o SubSeq(obj, n + 1, Len(obj))
    ELSE Append(obj, attr)

\* the object built by setting the attributes of a list in order
RECURSIVE ObjFrom(_)
ObjFrom(list) ==
    IF list = <<>> THEN <<>>
    ELSE ObjSet(ObjFrom(SubSeq(list, 1, Len(list) - 1)), list[Len(list)])

-----------------------------------------------------------------------------
(* LSX reader: fast-xml-parser.  An element is [tag, attrs, children]; the *)
(* parser decodes the predefined entities of an attribute value.           *)

Entities ==
    << << <<"l","t",";">>, "<" >>, << <<"g","t",";">>, ">" >>,
       << <<"a","m","p",";">>, "&" >>, << <<"q","u","o","t",";">>, "\"" >>,
       << <<"a","p","o","s",";">>, "'" >> >>

RECURSIVE XmlUnescape(_)
XmlUnescape(s) ==
    IF s = <<>> THEN <<>>
    ELSE IF s[1] = "&"
            /\ \E e \in 1..Len(Entities) :
                  SubSeq(s, 2, 1 + Len(Entities[e][1])) = Entities[e][1]
    THEN LET e == CHOOSE x \in 1..Len(Entities) :
                      SubSeq(s, 2, 1 + Len(Entities[x][1])) = Entities[x][1]
         IN  <<Entities[e][2]>> \o XmlUnescape(SubSeq(s, 2 + Len(Entities[e][1]), Len(s)))
    ELSE <<s[1]>> \o XmlUnescape(Tail(s))

Element(tok) ==
    [tag |-> tok.tag,
     attrs |-> [i \in 1..Len(tok.attrs) |-> <<tok.attrs[i][1], XmlUnescape(tok.attrs[i][2])>>],
     children |-> <<>>]

AddChild(stack, el) ==
    [stack EXCEPT ![Len(stack)].children = Append(@, el)]

\* the element tree of a well-nested sequence of tags
RECURSIVE BuildDoc(_, _)
BuildDoc(tokens, stack) ==
    IF tokens = <<>> THEN stack[1]
    ELSE LET tok == Head(tokens)
         IN  CASE tok.t = "open" -> BuildDoc(Tail(tokens), Append(stack, Element(tok)))
               [] tok.t = "empty" -> BuildDoc(Tail(tokens), AddChild(stack, Element(tok)))
               [] tok.t = "close" ->
                    BuildDoc(Tail(tokens),
                             AddChild(SubSeq(stack, 1, Len(stack) - 1), stack[Len(stack)]))

parseXml(xml) == BuildDoc(xml, <<[tag |-> "#document", attrs |-> <<>>, children |-> <<>>]>>)

\* el.tag: the child elements named tag, in document order
Prop(el, tag) == SelectSeq(el.children, LAMBDA c : c.tag = tag)

\* an element without attributes and content parses to "", which is falsy
ElTruthy(el) == Len(el.attrs) > 0 \/ Len(el.children) > 0

\* getAttrs(el).name ?? default
AttrOr(el, name, default) ==
    IF \E i \in 1..Len(el.attrs) : el.attrs[i][1] = name
    THEN el.attrs[CHOOSE i \in 1..Len(el.attrs) : el.attrs[i][1] = name][2]
    ELSE default

-----------------------------------------------------------------------------
(* LSX reader: parseLsx.                                                   *)

RECURSIVE DigitPrefix(_)
DigitPrefix(s) ==
    IF s = <<>> \/ ~IsDigit(s[1]) THEN <<>> ELSE <<s[1]>> \o DigitPrefix(Tail(s))

\* parseInt(s, 10) || 0: an optional sign and the leading digits, 0 for NaN
ParseIntOr0(s) ==
    LET neg == s # <<>> /\ s[1] = "-"
        body == IF s # <<>> /\ s[1] \in {"-", "+"} THEN Tail(s) ELSE s
        n == StrToNat(DigitPrefix(body))
    IN  IF neg THEN 0 - n ELSE n

IsNaNInt(s) ==
    LET body == IF s # <<>> /\ s[1] \in {"-", "+"} THEN Tail(s) ELSE s
    IN  DigitPrefix(body) = <<>>

\* parseVersion (the attributes of the model are always integers)
parseVersion(versionEl) ==
    [major |-> ParseIntOr0(AttrOr(versionEl, "major", <<"4">>)),
     minor |-> ParseIntOr0(AttrOr(versionEl, "minor", <<"0">>)),
     revision |-> ParseIntOr0(AttrOr(versionEl, "revision", <<"0">>)),
     build |-> ParseIntOr0(AttrOr(versionEl, "build", <<"0">>))]

\* the sixteen names of parseType's nameMap
NameMap ==
    {T_FixedString, T_Int, T_UInt, T_Float, T_Bool, T_LSString, T_TranslatedString,
     T_LSWString, T_UUID, T_Byte, T_Short, T_UShort, T_Double, T_Long, T_Int64, T_Int8}

parseType(typeStr) ==
    LET t == ParseIntOr0(typeStr)
    IN  IF ~IsNaNInt(typeStr) /\ t >= 0 /\ t <= 33 THEN t
        ELSE IF \E n \in NameMap : NodeAttributeTypeName[n + 1] = typeStr
        THEN CHOOSE n \in NameMap : NodeAttributeTypeName[n + 1] = typeStr
        ELSE T_String

RECURSIVE parseTranslatedFSStringArguments(_)
parseArgument(a) ==
    LET base == [key |-> AttrOr(a, "key", <<>>), value |-> AttrOr(a, "value", <<>>)]
        stringEls == SelectSeq(Prop(a, "string"), ElTruthy)
    IN  IF Prop(a, "string") # <<>> /\ (Len(Prop(a, "string")) > 1 \/ stringEls # <<>>)
        THEN LET sEl == Prop(a, "string")[1]
                 argsEls == Prop(sEl, "arguments")
                 nestedArgs == IF Len(argsEls) = 1 /\ ElTruthy(argsEls[1])
                               THEN parseTranslatedFSStringArguments(argsEls[1])
                               ELSE <<>>
                 sub == TsV(AttrOr(sEl, "value", <<>>), AttrOr(sEl, "handle", <<>>))
             IN  [key |-> base.key, value |-> base.value,
                  string |-> IF Len(nestedArgs) > 0
                             THEN FsV(sub.value, sub.handle, nestedArgs) ELSE sub]
        ELSE base

\* the arguments under an <arguments> element; <<>> stands for undefined
parseTranslatedFSStringArguments(argsEl) ==
    LET arr == SelectSeq(Prop(argsEl, "argument"), ElTruthy)
    IN  [i \in 1..Len(arr) |-> parseArgument(arr[i])]

\* parseAttributeValue; Float and Double are not part of this value domain
parseAttributeValue(type, valueStr, el) ==
    IF type = T_TranslatedString \/ type = T_TranslatedFSString
    THEN LET argsEls == Prop(el, "arguments")
             args == IF type = T_TranslatedFSString /\ Len(argsEls) = 1
                        /\ ElTruthy(argsEls[1])
                     THEN parseTranslatedFSStringArguments(argsEls[1]) ELSE <<>>
             handle == AttrOr(el, "handle", <<>>)
         IN  IF Len(args) > 0 THEN FsV(valueStr, handle, args) ELSE TsV(valueStr, handle)
    ELSE IF type = T_Bool
    THEN BoolV(valueStr \in {<<"T","r","u","e">>, <<"t","r","u","e">>, <<"1">>})
    ELSE IF type \in {T_Byte, T_Int8, T_Short, T_UShort, T_Int, T_UInt}
    THEN NumV(ParseIntOr0(valueStr))
    ELSE StrV(valueStr)

\* parseAttribute: <<>> stands for null
parseAttribute(el) ==
    LET id == AttrOr(el, "id", <<>>)
        type == parseType(AttrOr(el, "type", <<"2","0">>))
    IN  IF Len(id) = 0 THEN <<>>
        ELSE <<Attribute(id, type, parseAttributeValue(type, AttrOr(el, "value", <<>>), el))>>

RECURSIVE parseNode(_)
parseNode(el) ==
    LET key == AttrOr(el, "key", <<>>)
        attrs == Flatten([i \in 1..Len(Prop(el, "attribute")) |->
                     parseAttribute(Prop(el, "attribute")[i])])
        childrenEls == Prop(el, "children")
        nodeEls == IF Len(childrenEls) = 1
                   THEN SelectSeq(Prop(childrenEls[1], "node"), ElTruthy) ELSE <<>>
    IN  [name |-> AttrOr(el, "id", <<"N","o","d","e">>),
         key |-> IF Len(key) > 0 THEN <<key>> ELSE <<>>,
         attributes |-> ObjFrom(attrs),
         children |-> [i \in 1..Len(nodeEls) |-> parseNode(nodeEls[i])]]

\* extractRegionContent: the { regionId, root } pairs of the regions
extractRegionContent(save) ==
    LET regionList == SelectSeq(Prop(save, "region"), ElTruthy)
        withNode == SelectSeq(regionList,
                       LAMBDA r : Prop(r, "node") # <<>> /\ ElTruthy(Prop(r, "node")[1]))
    IN  [i \in 1..Len(withNode) |->
            [regionId |-> AttrOr(withNode[i], "id", <<"R","e","g","i","o","n">>),
             root |-> Prop(withNode[i], "node")[1]]]

\* the region root built for one region: the parsed node under a node named
\* after the region, with one level removed when the parsed node has no
\* attributes and a single child of its own name
RegionRoot(regionId, rootNode) ==
    LET inner == rootNode
    IN  IF Len(inner.attributes) = 0 /\ Len(inner.children) = 1
           /\ inner.children[1].name = inner.name
        THEN Node(regionId, <<>>, <<inner.children[1]>>)
        ELSE Node(regionId, <<>>, <<rootNode>>)

parseLsx(xml) ==
    LET doc == parseXml(xml)
        saves == Prop(doc, "save")
    IN  IF saves = <<>> \/ ~ElTruthy(saves[1])
        THEN [err |-> "Invalid LSX: no <save> root"]
        ELSE
          LET save == saves[1]
              versionEls == Prop(save, "version")
              version == IF versionEls # <<>> THEN parseVersion(versionEls[1])
                         ELSE [major |-> 4, minor |-> 0, revision |-> 0, build |-> 0]
              regions == extractRegionContent(save)
              regionNodes == [i \in 1..Len(regions) |->
                                 RegionRoot(regions[i].regionId, parseNode(regions[i].root))]
          IN  IF Len(regions) = 0
              THEN [err |-> "Invalid LSX: no region/node structure"]
              ELSE [root |-> IF Len(regionNodes) = 1 THEN regionNodes[1]
                             ELSE Node(SaveName, <<>>, regionNodes),
                    version |-> version]

-----------------------------------------------------------------------------
(* Buffers: little-endian integers and UTF-8 text.                         *)

LE16(n) == <<n % 256, (n \div 256) % 256>>
LE32(n) == LE16(n % 65536) \o LE16((n \div 65536) % 65536)

U16At(b, off) == b[off + 1] + 256 * b[off + 2]
I16At(b, off) == IF U16At(b, off) >= 32768 THEN U16At(b, off) - 65536 ELSE U16At(b, off)
\* readInt32LE (readUInt32LE for values below 2^31)
I32At(b, off) == U16At(b, off) + 65536 * I16At(b, off + 2)
\* readInt8
I8At(b, off) == IF b[off + 1] >= 128 THEN b[off + 1] - 256 ELSE b[off + 1]

\* Buffer.from(s, "utf8") and buf.toString("utf8") on the ASCII alphabet
Utf8(s) == [i \in 1..Len(s) |-> CharCode(s[i])]
FromUtf8(b) == [i \in 1..Len(b) |-> CharOf(b[i])]

\* buf.subarray(from, to): a negative index counts from the end, and both
\* are clipped to the buffer
Subarray(b, from, to) ==
    LET clip(i) == IF i < 0 THEN Max(Len(b) + i, 0) ELSE Min(i, Len(b))
    IN  SubSeq(b, clip(from) + 1, clip(to))

\* buf.toString("hex")
ToHex(b) == Flatten([i \in 1..Len(b) |-> <<HexDigits[(b[i] \div 16) + 1], HexDigits[(b[i] % 16) + 1]>>])

-----------------------------------------------------------------------------
(* LSF writer: string table.  A 32-bit hash is the pair <<high, low>> of   *)
(* its 16-bit halves.                                                      *)

STRING_HASH_MAP_SIZE == 512

\* dotNetStringHashCode: hash = (hash * 31 + charCode) mod 2^32 per character
RECURSIVE dotNetStringHashCode(_)
dotNetStringHashCode(s) ==
    IF s = <<>> THEN <<0, 0>>
    ELSE LET h == dotNetStringHashCode(SubSeq(s, 1, Len(s) - 1))
             lo == 31 * h[2] + CharCode(s[Len(s)])
             hi == 31 * h[1] + (lo \div 65536)
         IN  <<hi % 65536, lo % 65536>>

\* hashToBucket: the four 9-bit fields xor-ed; ">>" is the signed shift, so
\* the last field carries copies of the sign bit above its five hash bits
hashToBucket(hashCode) ==
    LET hi == hashCode[1]
        lo == hashCode[2]
        f0 == lo % 512
        f1 == (lo \div 512) + 128 * (hi % 4)
        f2 == (hi \div 4) % 512
        f3 == (hi \div 2048) + (IF hi >= 32768 THEN 480 ELSE 0)
    IN  BitXor(BitXor(f0, f1, 9), BitXor(f2, f3, 9), 9)

\* collectStringsInOrder: name, attribute names, then the children
RECURSIVE collectStringsInOrder(_)
collectStringsInOrder(node) ==
    <<node.name>>
    \o [i \in 1..Len(node.attributes) |-> node.attributes[i].name]
    \o Flatten([i \in 1..Len(node.children) |-> collectStringsInOrder(node.children[i])])

\* the chains of buildStringTable: bucket number -> strings, for the
\* buckets that hold a string (every other bucket is empty)
RECURSIVE Buckets(_)
Buckets(stringsInOrder) ==
    IF stringsInOrder = <<>> THEN <<>>
    ELSE LET prev == Buckets(SubSeq(stringsInOrder, 1, Len(stringsInOrder) - 1))
             str == stringsInOrder[Len(stringsInOrder)]
             bucket == hashToBucket(dotNetStringHashCode(str))
         IN  IF bucket \in DOMAIN prev
             THEN IF IndexOf(prev[bucket], str) >= 0 THEN prev
                  ELSE [prev EXCEPT ![bucket] = Append(@, str)]
             ELSE [b \in DOMAIN prev \cup {bucket} |->
                      IF b = bucket THEN <<str>> ELSE prev[b]]

Chain(chains, bucket) == IF bucket \in DOMAIN chains THEN chains[bucket] ELSE <<>>

\* indexMap.get(s) ?? 0: (bucket << 16) | offset
NameIndex(chains, str) ==
    LET bucket == hashToBucket(dotNetStringHashCode(str))
        found == IndexOf(Chain(chains, bucket), str)
    IN  IF found >= 0 THEN bucket * 65536 + found ELSE 0

\* buildStringTable: the buffer as [numBuckets, chains], and its length
buildStringTable(stringsInOrder) ==
    [numBuckets |-> STRING_HASH_MAP_SIZE, chains |-> Buckets(stringsInOrder)]

\* buildStringTable of the earlier writer: one bucket that holds every name
\* in the order of the set, the index of a name its place in it
buildStringTableOld(names) ==
    [numBuckets |-> 1,
     chains |-> IF names = <<>> THEN <<>> ELSE [b \in {0} |-> names]]

StringBufLength(buf) ==
    4 + 2 * buf.numBuckets
    + SeqSum([i \in 1..Cardinality(DOMAIN buf.chains) |->
         LET b == CHOOSE x \in DOMAIN buf.chains :
                     Cardinality({y \in DOMAIN buf.chains : y < x}) = i - 1
         IN  SeqSum([j \in 1..Len(buf.chains[b]) |-> 2 + Len(buf.chains[b][j])])])

-----------------------------------------------------------------------------
(* LSF writer: attribute values.                                           *)

\* a string with its terminator, behind its 32-bit length
LenPrefixed(str) == LE32(Len(str) + 1) \o Utf8(str) \o <<0>>

\* serializeTranslatedFSString: BG3 writes a 2-byte version in place of the
\* value; an argument without a nested string gets an empty one
RECURSIVE serializeTranslatedFSString(_, _)
serializeTranslatedFSString(ts, isBG3) ==
    LET args == IF "arguments" \in DOMAIN ts THEN ts.arguments ELSE <<>>
        sub(arg) == IF "string" \in DOMAIN arg THEN arg.string ELSE TsV(<<>>, <<>>)
    IN  (IF isBG3 THEN <<0, 0>> ELSE LenPrefixed(ts.value))
        \o LenPrefixed(ts.handle)
        \o LE32(Len(args))
        \o Flatten([i \in 1..Len(args) |->
              LenPrefixed(args[i].key)
              \o serializeTranslatedFSString(sub(args[i]), isBG3)
              \o LenPrefixed(args[i].value)])

\* parseInt(pair, 16) || 0 for the two characters at 0-based offset i of hex
ParseHexPair(hex, i) ==
    LET a == IF i + 1 <= Len(hex) THEN HexVal(hex[i + 1]) ELSE -1
        b == IF i + 2 <= Len(hex) THEN HexVal(hex[i + 2]) ELSE -1
    IN  IF a < 0 THEN 0 ELSE IF b < 0 THEN a ELSE 16 * a + b

\* [b[i], b[i+1]] = [b[i+1], b[i]] for i = 8, 10, 12, 14
SwapTail(b) ==
    [i \in 1..Len(b) |-> IF i <= 8 THEN b[i] ELSE IF i % 2 = 1 THEN b[i + 1] ELSE b[i - 1]]

\* String.prototype.split(/\s+/) of a trimmed string
RECURSIVE SplitSpaces(_)
SplitSpaces(str) ==
    IF str = <<>> THEN <<>>
    ELSE IF str[1] = " " THEN SplitSpaces(Tail(str))
    ELSE LET n == IF \E i \in 1..Len(str) : str[i] = " "
                  THEN (CHOOSE i \in 1..Len(str) :
                           str[i] = " " /\ \A j \in 1..(i - 1) : str[j] # " ") - 1
                  ELSE Len(str)
         IN  <<SubSeq(str, 1, n)>> \o SplitSpaces(SubSeq(str, n + 1, Len(str)))

\* Number(s) || 0 for the text of an integer
NumberOr0(str) ==
    LET body == IF str # <<>> /\ str[1] \in {"-", "+"} THEN Tail(str) ELSE str
    IN  IF body # <<>> /\ DigitPrefix(body) = body THEN ParseIntOr0(str) ELSE 0

\* Number(value) of a value that is a number or the text of one
ToNumber(v) ==
    CASE v.k = "num" -> v.n
      [] v.k = "bool" -> IF v.b THEN 1 ELSE 0
      [] v.k = "str" -> NumberOr0(v.s)
      [] v.k = "ts" -> 0

\* writeBigInt64LE of a value within the 32-bit range
LE64(n) == LE32(n) \o (IF n < 0 THEN <<255, 255, 255, 255>> ELSE <<0, 0, 0, 0>>)

StringTypes == {T_String, T_Path, T_FixedString, T_LSString, T_WString, T_LSWString}
IVecTypes == {T_IVec2, T_IVec3, T_IVec4}
Int64Types == {T_ULongLong, T_Long, T_Int64}
\* the types that reach the default branch of both codecs
OpaqueTypes == {T_None, T_Mat2, T_Mat3, T_Mat3x4, T_Mat4x3, T_Mat4}

\* serializeAttributeValue.  The floating-point types (Float, Double, Vec2,
\* Vec3, Vec4) and ScratchBuffer are outside the value domain of the model.
serializeAttributeValue(attr, isBG3) ==
    LET type == attr.type
        value == attr.value
    IN  CASE type \in {T_Byte, T_Int8} -> <<ToNumber(value) % 256>>
          [] type \in {T_Short, T_UShort} -> LE16(ToNumber(value) % 65536)
          [] type \in {T_Int, T_UInt} -> LE32(ToNumber(value))
          [] type = T_Bool -> <<IF Truthy(value) THEN 1 ELSE 0>>
          [] type \in StringTypes -> Utf8(JsString(value)) \o <<0>>
          [] type = T_UUID ->
               LET hex == SelectSeq(JsString(value), LAMBDA c : c # "-")
               IN  SwapTail([i \in 1..16 |-> ParseHexPair(hex, 2 * (i - 1))])
          [] type = T_TranslatedString ->
               LenPrefixed(IF value.k = "ts" THEN value.value ELSE <<>>)
               \o LenPrefixed(IF value.k = "ts" THEN value.handle ELSE <<>>)
          [] type = T_TranslatedFSString ->
               serializeTranslatedFSString(IF value.k = "ts" THEN value ELSE TsV(<<>>, <<>>),
                                           isBG3)
          [] type \in IVecTypes ->
               LET parts == SplitSpaces(JsString(value))
                   comps == type - T_IVec2 + 2
               IN  Flatten([i \in 1..comps |->
                      LE32(IF i <= Len(parts) THEN NumberOr0(parts[i]) ELSE 0)])
          [] type \in Int64Types -> LE64(ToNumber(value))
          [] type \in OpaqueTypes -> Utf8(JsString(value))

getAttributeLength(attr, isBG3) == Len(serializeAttributeValue(attr, isBG3))

-----------------------------------------------------------------------------
(* LSF writer: writeLsf.                                                   *)

RECURSIVE NodeCount(_)
NodeCount(node) == 1 + SeqSum([i \in 1..Len(node.children) |-> NodeCount(node.children[i])])

\* flattenNodes, with the parent and the next sibling that writeLsf finds
\* for each node by searching the flat list
RECURSIVE flattenNodes(_, _, _, _)
RECURSIVE FlattenChildren(_, _, _, _)
flattenNodes(node, idx, parentIdx, nextSiblingIdx) ==
    <<[node |-> node, parentIndex |-> parentIdx, nextSiblingIndex |-> nextSiblingIdx]>>
    \o FlattenChildren(node.children, 1, idx + 1, idx)

FlattenChildren(children, i, startIdx, parentIdx) ==
    IF i > Len(children) THEN <<>>
    ELSE LET size == NodeCount(children[i])
         IN  flattenNodes(children[i], startIdx, parentIdx,
                          IF i < Len(children) THEN startIdx + size ELSE -1)
             \o FlattenChildren(children, i + 1, startIdx + size, parentIdx)

RECURSIVE FlattenRegions(_, _)
FlattenRegions(regions, startIdx) ==
    IF regions = <<>> THEN <<>>
    ELSE flattenNodes(Head(regions), startIdx, -1, -1)
         \o FlattenRegions(Tail(regions), startIdx + NodeCount(Head(regions)))

\* the regions writeLsf and convertLsfToLsx iterate over
RegionsOf(root) ==
    IF root.name = SaveName /\ Len(root.children) > 0 THEN root.children ELSE <<root>>

packEngineVersion(v) ==
    LET high == (v.major % 16) * 16 + (v.minor % 16)
    IN  high * 16777216 + (v.revision % 256) * 65536 + (v.build % 256) * 256

\* the revision moved up by 32 bits instead of 31
packEngineVersionBG3Shifted(v) ==
    <<v.build % 65536,
      v.build \div 65536,
      v.revision % 65536,
      ((v.minor % 256) \div 2) + (v.major % 128) * 128>>

\* packEngineVersionBG3: the 64-bit word as four 16-bit words, lowest first.
\* build & 0x7fffffff takes bits 0..30, the revision bits 31..46, the minor
\* bits 47..54 and the major bits 55..61; a build is below 2^31 here.
packEngineVersionBG3(v) ==
    <<v.build % 65536,
      (v.build \div 65536) + ((v.revision % 65536) % 2) * 32768,
      ((v.revision % 65536) \div 2) + ((v.minor % 256) % 2) * 32768,
      ((v.minor % 256) \div 2) + (v.major % 128) * 128>>

\* compressBlock: the LZ4 library is taken as a lossless codec, the block
\* it returns carries the data; an empty buffer is returned as it is
compressBlock(data, length) ==
    IF length = 0 THEN [lz4 |-> FALSE, data |-> data, length |-> 0]
    ELSE [lz4 |-> TRUE, data |-> data, length |-> length]

\* the flat attribute list of writeLsf: one entry per attribute, node by node
FlatAttrs(flatNodes, chains, isBG3) ==
    Flatten([n \in 1..Len(flatNodes) |->
        [a \in 1..Len(flatNodes[n].node.attributes) |->
            LET attr == flatNodes[n].node.attributes[a]
            IN  [nameIndex |-> NameIndex(chains, attr.name),
                 type |-> attr.type,
                 length |-> getAttributeLength(attr, isBG3),
                 nodeIdx |-> n - 1,
                 last |-> a = Len(flatNodes[n].node.attributes)]]])

\* the node table: 16-byte entries under metadata format 1, else 12-byte ones
NodeEntry(flatNode, nameIndex, firstAttributeIndex, metadataFormat) ==
    IF metadataFormat = 1
    THEN <<nameIndex, flatNode.parentIndex, flatNode.nextSiblingIndex, firstAttributeIndex>>
    ELSE <<nameIndex, firstAttributeIndex, flatNode.parentIndex>>

NodeBuf(flatNodes, chains, metadataFormat) ==
    Flatten([n \in 1..Len(flatNodes) |->
        NodeEntry(flatNodes[n], NameIndex(chains, flatNodes[n].node.name),
                  IF Len(flatNodes[n].node.attributes) > 0
                  THEN SeqSum([i \in 1..(n - 1) |-> Len(flatNodes[i].node.attributes)])
                  ELSE -1,
                  metadataFormat)])

\* length << 6: the low 32 bits of length * 64, as a signed integer
ShiftLeft6(length) ==
    IF length % 67108864 >= 33554432
    THEN ((length % 67108864) - 67108864) * 64
    ELSE (length % 67108864) * 64

\* (a.type & 0x3f) | (a.length << 6): the low six bits of the shifted length
\* are zero, so the bits of the type are added
TypeAndLength(type, length) == (type % 64) + ShiftLeft6(length)

\* buf.writeUInt32LE(value): a value below zero is out of range
writeUInt32LE(value) ==
    IF value < 0 THEN [err |-> "ERR_OUT_OF_RANGE"] ELSE [word |-> value]

\* the attribute table
AttrEntry(a, i, valueOffset, metadataFormat) ==
    IF metadataFormat = 1
    THEN <<a.nameIndex, TypeAndLength(a.type, a.length), IF a.last THEN -1 ELSE i, valueOffset>>
    ELSE <<a.nameIndex, TypeAndLength(a.type, a.length), a.nodeIdx>>

AttrBuf(flatAttrs, metadataFormat) ==
    Flatten([i \in 1..Len(flatAttrs) |->
        AttrEntry(flatAttrs[i], i, SeqSum([j \in 1..(i - 1) |-> flatAttrs[j].length]),
                  metadataFormat)])

\* the value block
ValuesBuf(flatNodes, isBG3) ==
    Flatten([n \in 1..Len(flatNodes) |->
        Flatten([a \in 1..Len(flatNodes[n].node.attributes) |->
            serializeAttributeValue(flatNodes[n].node.attributes[a], isBG3)])])

CompressStrings(stringBuf) == compressBlock(stringBuf, StringBufLength(stringBuf))
CompressWords(buf) == compressBlock(buf, 4 * Len(buf))
CompressBytes(buf) == compressBlock(buf, Len(buf))

BlockSize(block) == [uncompressedSize |-> block.length, compressedSize |-> block.length]

\* header, metadata and the four blocks
LsfFile(v, isBG3, metadataFormat, strings, nodes, attributes, values) ==
    IF isBG3
    THEN [header |-> [magic |-> "LSOF", version |-> 6, size |-> 16,
                      engineVersion |-> packEngineVersionBG3(v)],
          meta |-> [strings |-> BlockSize(strings),
                    keys |-> [uncompressedSize |-> 0, compressedSize |-> 0],
                    nodes |-> BlockSize(nodes),
                    attributes |-> BlockSize(attributes),
                    values |-> BlockSize(values),
                    compressionFlags |-> 34, metadataFormat |-> 1],
          blocks |-> [strings |-> strings, nodes |-> nodes,
                      attributes |-> attributes, values |-> values]]
    ELSE [header |-> [magic |-> "LSOF", version |-> 3, size |-> 12,
                      engineVersion |-> packEngineVersion(v)],
          meta |-> [strings |-> BlockSize(strings),
                    nodes |-> BlockSize(nodes),
                    attributes |-> BlockSize(attributes),
                    values |-> BlockSize(values),
                    compressionFlags |-> 34, metadataFormat |-> metadataFormat % 256],
          blocks |-> [strings |-> strings, nodes |-> nodes,
                      attributes |-> attributes, values |-> values]]

WriteTables(v, isBG3, metadataFormat, stringBuf, flatNodes) ==
    LsfFile(v, isBG3, metadataFormat,
            CompressStrings(stringBuf),
            CompressWords(NodeBuf(flatNodes, stringBuf.chains, metadataFormat)),
            CompressWords(AttrBuf(FlatAttrs(flatNodes, stringBuf.chains, isBG3),
                                  metadataFormat)),
            CompressBytes(ValuesBuf(flatNodes, isBG3)))

WriteRegions(regions, v, isBG3, metadataFormat) ==
    WriteTables(v, isBG3, metadataFormat,
                buildStringTable(Flatten([i \in 1..Len(regions) |->
                                     collectStringsInOrder(regions[i])])),
                FlattenRegions(regions, 0))

writeLsf(root, v, options) ==
    WriteRegions(RegionsOf(root), v, v.major >= 4,
                 IF options # <<>> THEN options[1] ELSE IF v.major >= 4 THEN 1 ELSE 0)

-----------------------------------------------------------------------------
(* LSF reader: attribute values.                                           *)

\* readLsfString: drop the last byte, then the trailing NUL bytes
RECURSIVE StripNuls(_)
StripNuls(b) ==
    IF b # <<>> /\ b[Len(b)] = 0 THEN StripNuls(SubSeq(b, 1, Len(b) - 1)) ELSE b

readLsfString(buf) ==
    IF Len(buf) = 0 THEN <<>> ELSE FromUtf8(StripNuls(SubSeq(buf, 1, Len(buf) - 1)))

\* formatUuid(buf, true): swap the bytes 8..15 in pairs, hex in groups
formatUuid(buf) ==
    LET b == SwapTail(buf)
    IN  ToHex(SubSeq(b, 1, 4)) \o <<"-">> \o ToHex(SubSeq(b, 5, 6)) \o <<"-">>
        \o ToHex(SubSeq(b, 7, 8)) \o <<"-">> \o ToHex(SubSeq(b, 9, 10)) \o <<"-">>
        \o ToHex(SubSeq(b, 11, 16))

\* a length-prefixed string at pos: [str, pos] after it, or <<>> when the
\* four length bytes are missing
ReadLenPrefixed(buf, pos) ==
    IF Len(buf) < pos + 4 THEN <<>>
    ELSE LET len == I32At(buf, pos)
         IN  IF len > 0 /\ Len(buf) >= pos + 4 + len
             THEN <<[str |-> readLsfString(SubSeq(buf, pos + 5, pos + 4 + len)),
                     pos |-> pos + 4 + len]>>
             ELSE <<[str |-> <<>>, pos |-> pos + 4]>>

readTranslatedString(buf) ==
    IF Len(buf) < 8 THEN TsV(<<>>, <<>>)
    ELSE LET v == ReadLenPrefixed(buf, 0)[1]
             h == ReadLenPrefixed(buf, v.pos)
         IN  IF h = <<>> THEN TsV(v.str, <<>>) ELSE TsV(v.str, h[1].str)

\* readTranslatedFSStringWithLength: [result, bytesConsumed]
RECURSIVE readTranslatedFSStringWithLength(_, _)
RECURSIVE ReadArgs(_, _, _, _, _)
readTranslatedFSStringWithLength(buf, isBG3) ==
    IF Len(buf) < 4 \/ (isBG3 /\ Len(buf) < 6)
    THEN [result |-> TsV(<<>>, <<>>), bytesConsumed |-> 0]
    ELSE
      LET v == IF isBG3 THEN [str |-> <<>>, pos |-> 2] ELSE ReadLenPrefixed(buf, 0)[1]
          h == ReadLenPrefixed(buf, v.pos)
      IN  IF h = <<>> THEN [result |-> TsV(v.str, <<>>), bytesConsumed |-> v.pos]
          ELSE IF Len(buf) < h[1].pos + 4
          THEN [result |-> TsV(v.str, h[1].str), bytesConsumed |-> h[1].pos]
          ELSE LET numArgs == I32At(buf, h[1].pos)
                   pos == h[1].pos + 4
               IN  IF numArgs <= 0
                   THEN [result |-> TsV(v.str, h[1].str), bytesConsumed |-> pos]
                   ELSE LET r == ReadArgs(buf, isBG3, numArgs, pos, <<>>)
                        IN  [result |-> FsV(v.str, h[1].str, r.args),
                             bytesConsumed |-> r.pos]

\* the loop over the arguments: [args, pos] when it ends or breaks
ReadArgs(buf, isBG3, remaining, pos, args) ==
    IF remaining = 0 \/ Len(buf) < pos + 4 THEN [args |-> args, pos |-> pos]
    ELSE LET key == ReadLenPrefixed(buf, pos)[1]
             sub == readTranslatedFSStringWithLength(
                        SubSeq(buf, key.pos + 1, Len(buf)), isBG3)
             pos2 == key.pos + sub.bytesConsumed
         IN  IF Len(buf) < pos2 + 4 THEN [args |-> args, pos |-> pos2]
             ELSE LET val == ReadLenPrefixed(buf, pos2)[1]
                  IN  ReadArgs(buf, isBG3, remaining - 1, val.pos,
                               Append(args, [key |-> key.str, value |-> val.str,
                                             string |-> sub.result]))

\* the decimal text of the little-endian 64-bit integer in buf, for the
\* values of the 32-bit range
Int64Text(buf) ==
    CASE SubSeq(buf, 5, 8) = <<0, 0, 0, 0>> /\ buf[4] < 128 -> IntToStr(I32At(buf, 0))
      [] SubSeq(buf, 5, 8) = <<255, 255, 255, 255>> /\ buf[4] >= 128 -> IntToStr(I32At(buf, 0))

\* readAttributeValue(attr, offset): the value, or [err |-> ...]
readAttributeValue(values, attr, offset, isBG3) ==
    LET buf == Subarray(values, offset, offset + attr.length)
        n == Len(buf)
        type == attr.type
        ints(c) == IF n >= 4 * c
                   THEN StrV(Flatten([i \in 1..c |->
                           (IF i > 1 THEN <<" ">> ELSE <<>>)
                           \o IntToStr(I32At(buf, 4 * (i - 1)))]))
                   ELSE StrV(ToHex(buf))
    IN  IF n = 0 /\ attr.length > 0 THEN StrV(<<>>)
        ELSE CASE type \in {T_Byte, T_Int8} -> NumV(IF n >= 1 THEN I8At(buf, 0) ELSE 0)
          [] type = T_Short -> NumV(IF n >= 2 THEN I16At(buf, 0) ELSE 0)
          [] type = T_UShort -> NumV(IF n >= 2 THEN U16At(buf, 0) ELSE 0)
          [] type \in {T_Int, T_UInt} -> NumV(IF n >= 4 THEN I32At(buf, 0) ELSE 0)
          [] type = T_Bool -> BoolV(IF n >= 1 THEN buf[1] # 0 ELSE FALSE)
          [] type \in IVecTypes -> ints(type - T_IVec2 + 2)
          [] type \in StringTypes -> StrV(readLsfString(buf))
          [] type = T_UUID -> StrV(IF n = 16 THEN formatUuid(buf) ELSE ToHex(buf))
          [] type = T_ULongLong ->
               IF n < 8 THEN [err |-> "ERR_OUT_OF_RANGE"] ELSE StrV(Int64Text(buf))
          [] type \in {T_Long, T_Int64} ->
               StrV(IF n >= 8 THEN Int64Text(buf) ELSE <<>>)
          [] type = T_TranslatedString -> readTranslatedString(buf)
          [] type = T_TranslatedFSString ->
               readTranslatedFSStringWithLength(buf, isBG3).result
          [] type \in OpaqueTypes -> StrV(ToHex(buf))

-----------------------------------------------------------------------------
(* LSF reader: tables and tree.                                            *)

\* n.toString(16) of a 32-bit word read as unsigned
RECURSIVE NatToHex(_)
NatToHex(n) ==
    IF n < 16 THEN <<HexDigits[n + 1]>>
    ELSE NatToHex(n \div 16) \o <<HexDigits[(n % 16) + 1]>>

Hex32(n) ==
    IF n >= 0 THEN NatToHex(n)
    ELSE NatToHex((n \div 65536) % 65536)
         \o ToHex(<<(n % 65536) \div 256, n % 256>>)

\* decompressBlock: an empty block, or the data of an LZ4 block
decompressBlock(meta, block) ==
    IF meta.compressedSize = 0 /\ meta.uncompressedSize = 0 THEN <<>> ELSE block.data

\* resolveName: strings[index >> 16][index & 0xffff], or a placeholder
resolveName(strings, nameIndex) ==
    LET bucket == nameIndex \div 65536
        offset == nameIndex % 65536
    IN  IF nameIndex >= 0 /\ bucket < strings.numBuckets
           /\ offset < Len(Chain(strings.chains, bucket))
        THEN Chain(strings.chains, bucket)[offset + 1]
        ELSE <<"u","n","d","e","f","i","n","e","d","_","0","x">> \o Hex32(nameIndex)

\* parseNodes: 16-byte entries under metadata format 1, else 12-byte ones;
\* a read past the end of the buffer throws
parseNodes(buffer, metadataFormat) ==
    LET words == IF metadataFormat = 1 THEN 4 ELSE 3
        w(i, k) == buffer[words * (i - 1) + k]
    IN  IF Len(buffer) % words # 0 THEN [err |-> "ERR_OUT_OF_RANGE"]
        ELSE [entries |->
               [i \in 1..(Len(buffer) \div words) |->
                  IF words = 4
                  THEN [nameIndex |-> w(i, 1), parentIndex |-> w(i, 2),
                        nextSiblingIndex |-> w(i, 3), firstAttributeIndex |-> w(i, 4)]
                  ELSE [nameIndex |-> w(i, 1), parentIndex |-> w(i, 3),
                        nextSiblingIndex |-> -1, firstAttributeIndex |-> w(i, 2)]]]

\* typeAndLength >> 6 of a word read as unsigned: the signed shift.  A word
\* is held as the signed integer of the same 32 bits.
ShiftRight6(word) == word \div 64

\* parseAttributes: under format 0 the chain of a node links each attribute
\* to the next one of the same node, and the offsets accumulate
parseAttributes(buffer, metadataFormat) ==
    LET isV3 == metadataFormat = 1
        words == IF isV3 THEN 4 ELSE 3
        count == Len(buffer) \div words
        w(i, k) == buffer[words * (i - 1) + k]
        length(i) == ShiftRight6(w(i, 2))
        nextSame(i) ==
            IF \E j \in (i + 1)..count : w(j, 3) = w(i, 3)
            THEN (CHOOSE j \in (i + 1)..count :
                     w(j, 3) = w(i, 3) /\ \A x \in (i + 1)..(j - 1) : w(x, 3) # w(i, 3)) - 1
            ELSE -1
    IN  IF Len(buffer) % words # 0 THEN [err |-> "ERR_OUT_OF_RANGE"]
        ELSE IF ~isV3 /\ \E i \in 1..count : w(i, 3) < -1
        THEN [err |-> "TypeError"]
        ELSE [entries |->
               [i \in 1..count |->
                  [nameIndex |-> w(i, 1),
                   type |-> w(i, 2) % 64,
                   length |-> length(i),
                   nodeIndex |-> IF isV3 THEN -1 ELSE w(i, 3),
                   nextAttributeIndex |-> IF isV3 THEN w(i, 3) ELSE nextSame(i),
                   offset |-> IF isV3 THEN w(i, 4)
                              ELSE SeqSum([j \in 1..(i - 1) |-> length(j)])]]]

MaxBuildDepth == 100

\* the attribute loop of buildNodeRecursive: the object built so far, or
\* [err |-> ...]
RECURSIVE ReadAttrChain(_, _, _, _, _)
ReadAttrValue(r, attrIdx, visited, obj, attrEntry, actualOffset, value) ==
    IF IsErr(value) THEN value
    ELSE ReadAttrChain(r, attrEntry.nextAttributeIndex,
                       actualOffset + attrEntry.length, visited \cup {attrIdx},
                       ObjSet(obj, Attribute(resolveName(r.strings, attrEntry.nameIndex),
                                             attrEntry.type, value)))

ReadAttrAt(r, attrIdx, visited, obj, attrEntry, actualOffset) ==
    ReadAttrValue(r, attrIdx, visited, obj, attrEntry, actualOffset,
                  readAttributeValue(r.values, attrEntry, actualOffset, r.isBG3))

ReadAttrChain(r, attrIdx, runningOffset, visited, obj) ==
    IF attrIdx = -1 \/ attrIdx >= Len(r.attributes) \/ attrIdx \in visited THEN [obj |-> obj]
    ELSE IF attrIdx < -1 THEN [err |-> "TypeError"]
    ELSE ReadAttrAt(r, attrIdx, visited, obj, r.attributes[attrIdx + 1],
                    IF r.attributes[attrIdx + 1].offset # 0
                    THEN r.attributes[attrIdx + 1].offset ELSE runningOffset)

\* the first error among results, if any
FirstErr(results) ==
    IF \E i \in 1..Len(results) : IsErr(results[i])
    THEN <<results[CHOOSE i \in 1..Len(results) :
                      IsErr(results[i]) /\ \A j \in 1..(i - 1) : ~IsErr(results[j])]>>
    ELSE <<>>

\* the indices of the nodes whose parent is parentIdx, in table order
ChildIndices(nodes, parentIdx) ==
    SelectSeq([i \in 1..Len(nodes) |-> i - 1],
              LAMBDA i : nodes[i + 1].parentIndex = parentIdx /\ i # parentIdx)

\* buildNodeRecursive: the node once its attributes and children are read
NodeResult(name, attrs, children) ==
    IF FirstErr(children) # <<>> THEN FirstErr(children)[1]
    ELSE Node(name, attrs.obj, children)

RECURSIVE buildNodeRecursive(_, _, _)
BuildChildren(r, childIdx, depth) ==
    [c \in 1..Len(childIdx) |-> buildNodeRecursive(r, childIdx[c], depth + 1)]

BuildWithAttrs(r, nodeIdx, depth, nodeEntry, attrs) ==
    IF IsErr(attrs) THEN attrs
    ELSE NodeResult(resolveName(r.strings, nodeEntry.nameIndex), attrs,
                    BuildChildren(r, ChildIndices(r.nodes, nodeIdx), depth))

BuildNode(r, nodeIdx, depth, nodeEntry) ==
    BuildWithAttrs(r, nodeIdx, depth, nodeEntry,
                   ReadAttrChain(r, nodeEntry.firstAttributeIndex, 0, {}, <<>>))

buildNodeRecursive(r, nodeIdx, depth) ==
    IF depth > MaxBuildDepth THEN [err |-> "Build recursion depth exceeded"]
    ELSE BuildNode(r, nodeIdx, depth, r.nodes[nodeIdx + 1])

\* reconstructTree: the single root, or the roots under a virtual "save"
RootsResult(roots) ==
    IF FirstErr(roots) # <<>> THEN FirstErr(roots)[1]
    ELSE IF Len(roots) = 1 THEN roots[1]
    ELSE Node(SaveName, <<>>, roots)

BuildRoots(r, rootIndices) ==
    IF Len(r.nodes) = 0 THEN [err |-> "No nodes found"]
    ELSE IF Len(rootIndices) = 0 THEN [err |-> "No root node found"]
    ELSE RootsResult([i \in 1..Len(rootIndices) |->
                         buildNodeRecursive(r, rootIndices[i], 0)])

reconstructTree(r) ==
    BuildRoots(r, SelectSeq([i \in 1..Len(r.nodes) |-> i - 1],
                            LAMBDA i : r.nodes[i + 1].parentIndex = -1))

\* LSFReader.read: readHeader, readMetadata, readBlocks, reconstructTree
ReadTables(file, nodes, attributes) ==
    IF IsErr(nodes) THEN nodes
    ELSE IF IsErr(attributes) THEN attributes
    ELSE reconstructTree(
            [strings |-> decompressBlock(file.meta.strings, file.blocks.strings),
             nodes |-> nodes.entries,
             attributes |-> attributes.entries,
             values |-> decompressBlock(file.meta.values, file.blocks.values),
             isBG3 |-> file.header.version >= 5])

LSFRead(file) ==
    IF file.header.magic # "LSOF" THEN [err |-> "Invalid LSF magic"]
    ELSE ReadTables(file,
            parseNodes(decompressBlock(file.meta.nodes, file.blocks.nodes),
                       file.meta.metadataFormat),
            parseAttributes(decompressBlock(file.meta.attributes, file.blocks.attributes),
                            file.meta.metadataFormat))

\* getEngineVersion: the fields of the header's engine version
getEngineVersion(file) ==
    IF file.header.version >= 5
    THEN LET v == file.header.engineVersion
         IN  [major |-> (v[4] \div 128) % 128,
              minor |-> (v[4] % 128) * 2 + (v[3] \div 32768),
              revision |-> (v[3] % 32768) * 2 + (v[2] \div 32768),
              build |-> (v[2] % 32768) * 65536 + v[1]]
    ELSE LET v32 == file.header.engineVersion
             high == (v32 \div 16777216) % 256
         IN  [major |-> high \div 16, minor |-> high % 16,
              revision |-> (v32 \div 65536) % 256, build |-> (v32 \div 256) % 256]

-----------------------------------------------------------------------------
(* The inputs of the model.                                                *)

\* the most attributes drawn for one node
MaxAttrs == 2
\* the most children of the fan-shaped trees
MaxChildren == 3
\* the depth of the deepest chain-shaped tree
MaxDepth == 3

UuidText == <<"4","2","7","b","a","e","e","c","-","0","5","4","d","-","4","3","5","4","-","8","f","4","e","-","1","a","2","b","3","c","4","d","5","e","6","f">>

\* TranslatedFSString values by nesting level of their arguments
FsLevel0 == TsV(<<"A">>, <<"h","0">>)
FsLevel1 == FsV(<<"A">>, <<"h","1">>, <<[key |-> <<"k">>, value |-> <<"v">>]>>)
FsLevel1s == FsV(<<>>, <<"h","1">>,
                 <<[key |-> <<"k">>, value |-> <<"v">>, string |-> TsV(<<>>, <<"g">>)]>>)
FsLevel2 == FsV(<<>>, <<"h","2">>,
                <<[key |-> <<"k">>, value |-> <<"v">>,
                   string |-> FsV(<<>>, <<"g">>,
                                  <<[key |-> <<"j">>, value |-> <<"w">>,
                                     string |-> TsV(<<>>, <<>>)]>>)]>>)

SampleAttrs ==
    << Attribute(<<"b","0">>, T_Byte, NumV(7)),
       Attribute(<<"b","1">>, T_Byte, NumV(200)),
       Attribute(<<"i","8">>, T_Int8, NumV(-5)),
       Attribute(<<"s","h">>, T_Short, NumV(-2)),
       Attribute(<<"u","s">>, T_UShort, NumV(65535)),
       Attribute(<<"i","n">>, T_Int, NumV(-70000)),
       Attribute(<<"u","i">>, T_UInt, NumV(70000)),
       Attribute(<<"2">>, T_Bool, BoolV(TRUE)),
       Attribute(<<"1","0">>, T_Bool, BoolV(FALSE)),
       Attribute(<<"s","t">>, T_String, StrV(<<"a","<","'","&">>)),
       Attribute(<<"f","s">>, T_FixedString, StrV(<<>>)),
       Attribute(<<"l","s">>, T_LSString, StrV(<<"x","\"",">">>)),
       Attribute(<<"p","a">>, T_Path, StrV(<<"a","/","b">>)),
       Attribute(<<"w","s">>, T_LSWString, StrV(<<"w">>)),
       Attribute(<<"i","d">>, T_UUID, StrV(UuidText)),
       Attribute(<<"t","s">>, T_TranslatedString, TsV(<<"v">>, <<"h">>)),
       Attribute(<<"t","e">>, T_TranslatedString, TsV(<<>>, <<>>)),
       Attribute(<<"f","0">>, T_TranslatedFSString, FsLevel0),
       Attribute(<<"f","1">>, T_TranslatedFSString, FsLevel1),
       Attribute(<<"g","1">>, T_TranslatedFSString, FsLevel1s),
       Attribute(<<"f","2">>, T_TranslatedFSString, FsLevel2),
       Attribute(<<"i","v">>, T_IVec2, StrV(<<"1"," ","-","2">>)),
       Attribute(<<"l","l">>, T_Int64, StrV(<<"-","5">>)),
       Attribute(<<"l","o">>, T_Long, StrV(<<"7","0","0","0","0">>)),
       Attribute(<<"u","l">>, T_ULongLong, StrV(<<"5">>)),
       Attribute(<<"m","a">>, T_Mat2, StrV(<<"6","1">>)) >>

\* the attribute objects: up to MaxAttrs consecutive samples, set in order
AttrObjs ==
    {<<>>} \cup
    {ObjFrom(SubSeq(SampleAttrs, i, Min(i + n - 1, Len(SampleAttrs)))) :
        i \in 1..Len(SampleAttrs), n \in 1..MaxAttrs}

NameR == <<"R">>
NameN == <<"N">>
IntAttr(n) == Attribute(<<"v">>, T_Int, NumV(n))

\* a chain of d nodes, each but the last with one child
RECURSIVE Chain_(_)
Chain_(d) ==
    IF d = 1 THEN Node(NameN, <<IntAttr(1)>>, <<>>)
    ELSE Node(NameN, <<IntAttr(d)>>, <<Chain_(d - 1)>>)

\* a root with k children that have the same name and different attributes
Fan(name, k) ==
    Node(name, <<>>, [i \in 1..k |-> Node(NameN, <<IntAttr(i)>>, <<>>)])

Keyed(name) ==
    Node(name, <<>>, <<[Node(NameN, <<>>, <<>>) EXCEPT !.key = <<<<"k","1">>>>],
                       [Node(NameN, <<IntAttr(1)>>, <<>>) EXCEPT !.key = <<<<"k","2">>>>]>>)

SampleTrees ==
    {Node(NameR, obj, <<>>) : obj \in AttrObjs}
    \cup {Node(NameR, <<>>, <<Node(NameR, obj, <<>>)>>) : obj \in AttrObjs}
    \cup {Fan(NameR, k) : k \in 1..MaxChildren}
    \cup {Node(NameR, <<>>, <<Fan(NameR, k)>>) : k \in 1..MaxChildren}
    \cup {Node(NameR, <<>>, <<Node(NameR, <<>>, <<Chain_(d)>>)>>) : d \in 1..MaxDepth}
    \cup {Keyed(NameR), Node(NameR, <<>>, <<Keyed(NameR)>>)}
    \cup {Node(SaveName, <<>>, <<Fan(NameR, 1), Node(NameN, <<IntAttr(5)>>, <<>>)>>)}
    \cup {Node(NameR, <<>>, [i \in 1..3 |-> Node(NameN, <<>>, <<>>)])}

VersionDOS2 == [major |-> 3, minor |-> 6, revision |-> 9, build |-> 0]
VersionBG3 == [major |-> 4, minor |-> 0, revision |-> 9, build |-> 331]
Versions == {VersionDOS2, VersionBG3}

\* options.metadataFormat: <<>> when it is not given
MetadataFormats == {<<>>, <<0>>, <<1>>}

-----------------------------------------------------------------------------
(* The conversions as a state machine.  A tree is written to LSF and read  *)
(* back; what was read is converted to LSX, parsed, and written to LSF     *)
(* again, as the convert command and the round-trip verification do; the   *)
(* tree is also converted to LSX and parsed directly.  A result that does  *)
(* not exist yet is None.                                                  *)

VARIABLES
    \* LSF / LSX codec pipeline
    tree, version, options, lsf, readTree, lsx, parsed, lsf2, lsx2, lsxT, parsedT,
    \* LSX writer
    xmlNode, xmlNumeric, xmlOut, escIn, escOut,
    \* LSV packer and unpacker
    lsvDir, lsvVersion, lsvPkg, lsvUnpacked, lsvRepacked,
    \* a call of one function of the library: its arguments and what it returns
    callIn, callOut

codecVars == <<tree, version, options, lsf, readTree, lsx, parsed, lsf2, lsx2, lsxT, parsedT>>
lsxVars == <<xmlNode, xmlNumeric, xmlOut, escIn, escOut>>
lsvVars == <<lsvDir, lsvVersion, lsvPkg, lsvUnpacked, lsvRepacked>>
callVars == <<callIn, callOut>>
vars == <<codecVars, lsxVars, lsvVars, callVars>>

None == [none |-> TRUE]

IdleCodec ==
    /\ tree = None /\ version = None /\ options = None
    /\ lsf = None /\ readTree = None /\ lsx = None /\ parsed = None /\ lsf2 = None
    /\ lsx2 = None /\ lsxT = None /\ parsedT = None

IdleLsx ==
    xmlNode = None /\ xmlNumeric = None /\ xmlOut = None /\ escIn = None /\ escOut = None

IdleLsv ==
    /\ lsvDir = None /\ lsvVersion = None /\ lsvPkg = None
    /\ lsvUnpacked = None /\ lsvRepacked = None

IdleCall == callIn = None /\ callOut = None

-----------------------------------------------------------------------------
(* The codec pipeline: a tree is written as LSF, read back, converted to   *)
(* LSX, parsed and written again, as the convert command and the           *)
(* round-trip verification do.                                             *)

InitCodec ==
    /\ tree \in SampleTrees
    /\ version \in Versions
    /\ options \in MetadataFormats
    /\ lsf = None /\ readTree = None /\ lsx = None /\ parsed = None /\ lsf2 = None
    /\ lsx2 = None /\ lsxT = None /\ parsedT = None

\* writeLsf(tree, path, version, options)
WriteLsf ==
    /\ lsf = None
    /\ lsf' = writeLsf(tree, version, options)
    /\ UNCHANGED <<tree, version, options, readTree, lsx, parsed, lsf2, lsx2, lsxT, parsedT>>
    /\ UNCHANGED <<lsxVars, lsvVars, callVars>>

\* new LSFReader(file).read()
ReadLsf ==
    /\ lsf # None /\ readTree = None
    /\ readTree' = LSFRead(lsf)
    /\ UNCHANGED <<tree, version, options, lsf, lsx, parsed, lsf2, lsx2, lsxT, parsedT>>
    /\ UNCHANGED <<lsxVars, lsvVars, callVars>>

\* convert <input.lsf>: convertLsfToLsx(root, reader.getEngineVersion())
ConvertLsfToLsx ==
    /\ readTree # None /\ ~IsErr(readTree) /\ lsx = None
    /\ lsx' = [doc |-> convertLsfToLsx(readTree, getEngineVersion(lsf))]
    /\ UNCHANGED <<tree, version, options, lsf, readTree, parsed, lsf2, lsx2, lsxT, parsedT>>
    /\ UNCHANGED <<lsxVars, lsvVars, callVars>>

\* parseLsx(path)
ParseLsx ==
    /\ lsx # None /\ parsed = None
    /\ parsed' = parseLsx(lsx.doc)
    /\ UNCHANGED <<tree, version, options, lsf, readTree, lsx, lsf2, lsx2, lsxT, parsedT>>
    /\ UNCHANGED <<lsxVars, lsvVars, callVars>>

\* convert <input.lsx>: metadata format 0 below major version 4, else the
\* writer's default
RewriteLsf ==
    /\ parsed # None /\ ~IsErr(parsed) /\ lsf2 = None
    /\ lsf2' = writeLsf(parsed.root, parsed.version,
                        IF parsed.version.major >= 4 THEN <<>> ELSE <<0>>)
    /\ UNCHANGED <<tree, version, options, lsf, readTree, lsx, parsed, lsx2, lsxT, parsedT>>
    /\ UNCHANGED <<lsxVars, lsvVars, callVars>>

\* convert <input.lsf> on the re-written file: read it and emit LSX again
Reconvert ==
    /\ lsf2 # None /\ lsx2 = None
    /\ lsx2' = LET r == LSFRead(lsf2)
               IN  IF IsErr(r) THEN r
                   ELSE [doc |-> convertLsfToLsx(r, getEngineVersion(lsf2))]
    /\ UNCHANGED <<tree, version, options, lsf, readTree, lsx, parsed, lsf2, lsxT, parsedT>>
    /\ UNCHANGED <<lsxVars, lsvVars, callVars>>

\* convertLsfToLsx(tree, version) on the tree itself
ConvertTree ==
    /\ lsxT = None
    /\ lsxT' = [doc |-> convertLsfToLsx(tree, version)]
    /\ UNCHANGED <<tree, version, options, lsf, readTree, lsx, parsed, lsf2, lsx2, parsedT>>
    /\ UNCHANGED <<lsxVars, lsvVars, callVars>>

\* parseLsx on that text
ParseTree ==
    /\ lsxT # None /\ parsedT = None
    /\ parsedT' = parseLsx(lsxT.doc)
    /\ UNCHANGED <<tree, version, options, lsf, readTree, lsx, parsed, lsf2, lsx2, lsxT>>
    /\ UNCHANGED <<lsxVars, lsvVars, callVars>>

Init == InitCodec /\ IdleLsx /\ IdleLsv /\ IdleCall

Next ==
    \/ WriteLsf
    \/ ReadLsf
    \/ ConvertLsfToLsx
    \/ ParseLsx
    \/ RewriteLsf
    \/ Reconvert
    \/ ConvertTree
    \/ ParseTree

Spec == Init /\ [][Next]_vars
-----------------------------------------------------------------------------
(* Properties of the codec pipeline                                        *)

\* the names of a tree in order: node name, attribute names, children
RECURSIVE Order(_)
Order(t) ==
    [name |-> t.name,
     attrs |-> [i \in 1..Len(t.attributes) |-> t.attributes[i].name],
     children |-> [i \in 1..Len(t.children) |-> Order(t.children[i])]]

\* all attributes of a tree, node by node in pre-order
RECURSIVE AllAttributes(_)
AllAttributes(t) ==
    t.attributes \o Flatten([i \in 1..Len(t.children) |-> AllAttributes(t.children[i])])

\* a TranslatedFSString value with an absent nested string or argument list
\* written out as an empty one
RECURSIVE FsNorm(_)
FsNorm(ts) ==
    [value |-> ts.value, handle |-> ts.handle,
     arguments |->
        IF "arguments" \in DOMAIN ts
        THEN [i \in 1..Len(ts.arguments) |->
                [key |-> ts.arguments[i].key, value |-> ts.arguments[i].value,
                 string |-> IF "string" \in DOMAIN ts.arguments[i]
                            THEN FsNorm(ts.arguments[i].string)
                            ELSE FsNorm(TsV(<<>>, <<>>))]]
        ELSE <<>>]

\* the TranslatedFSString values of a tree
FsValues(t) ==
    LET fs == SelectSeq(AllAttributes(t),
                        LAMBDA a : a.type = T_TranslatedFSString /\ a.value.k = "ts")
    IN  [i \in 1..Len(fs) |-> FsNorm(fs[i].value)]

\* a tree whose attributes are all TranslatedFSString, and at least one
OnlyFS(t) ==
    /\ AllAttributes(t) # <<>>
    /\ \A i \in 1..Len(AllAttributes(t)) : AllAttributes(t)[i].type = T_TranslatedFSString

\* a single node with one UUID attribute in canonical form
IsUuidTree(t) ==
    /\ Len(t.attributes) = 1 /\ t.children = <<>>
    /\ t.attributes[1].type = T_UUID
    /\ t.attributes[1].value.k = "str"
    /\ IsUuidText(t.attributes[1].value.s)

\* the 16 bytes of a canonical UUID text, in text order
TextBytes(u) ==
    [i \in 1..16 |-> ParseHexPair(SelectSeq(u, LAMBDA c : c # "-"), 2 * (i - 1))]

\* first group byte-reversed, next two groups byte-swapped
SwappedHead(u) ==
    <<TextBytes(u)[4], TextBytes(u)[3], TextBytes(u)[2], TextBytes(u)[1],
      TextBytes(u)[6], TextBytes(u)[5], TextBytes(u)[8], TextBytes(u)[7]>>

\* the value attribute of the first <attribute> element of a document
FirstValueText(doc) ==
    LET tags == SelectSeq(doc, LAMBDA t : t.tag = "attribute")
        vals == SelectSeq(tags[1].attrs, LAMBDA a : a[1] = "value")
    IN  XmlUnescape(vals[1][2])

\* C1: reading the bytes written by writeLsf returns a tree equal to the
\* input tree (names, keys, children, attribute names, types and values)
C1_LsfRoundTrip ==
    (readTree # None /\ options = <<>>) => readTree = tree

\* C2: parseLsx of the text written by convertLsfToLsx returns a tree equal
\* to the input tree, and the same version
C2_LsxRoundTrip ==
    parsedT # None => (~IsErr(parsedT) /\ parsedT.root = tree /\ parsedT.version = version)

\* C3: LSF -> LSX -> LSF is byte-identical: the file written from the parsed
\* LSX (metadata format 0 below major 4, the default otherwise) equals the
\* file that was read
C3_LsfLsxLsfIdentical ==
    (lsf2 # None /\ options = <<>>) => lsf2 = lsf

\* C5: a canonical UUID is stored with its first group byte-reversed and its
\* next two groups byte-swapped, and reading the bytes back and emitting LSX
\* with bswap_guids yields the UUID text again
C5_UuidSwapped ==
    /\ (lsf # None /\ IsUuidTree(tree)) =>
          SubSeq(lsf.blocks.values.data, 1, 8) = SwappedHead(tree.attributes[1].value.s)
    /\ (lsx # None /\ IsUuidTree(tree)) =>
          FirstValueText(lsx.doc) = tree.attributes[1].value.s

\* C6: a TranslatedFSString with up to two levels of nested arguments
\* survives LSF write, LSF read, LSX write, LSX read and LSF write: value,
\* handle, argument keys and values, nesting and counts are the same, and
\* the value bytes written again equal the first ones
C6_FsStringSurvives ==
    (lsf2 # None /\ OnlyFS(tree) /\ options = <<>>) =>
        /\ FsValues(parsed.root) = FsValues(tree)
        /\ lsf2.blocks.values = lsf.blocks.values

\* C8: under both metadata layouts the reader lists the children and the
\* attributes of every node in the order in which they were written
C8_OrderPreserved ==
    readTree # None => (~IsErr(readTree) /\ Order(readTree) = Order(tree))

-----------------------------------------------------------------------------
(* The LSX writer on its own: serializeNode and escapeXml of the two        *)
(* revisions of the writer.                                                 *)

\* the longest string given to escapeXml
MaxStr == 2

EscAlphabet == {"<", ">", "&", "\"", "'", "a"}

EscInputs == UNION {[1..n -> EscAlphabet] : n \in 0..MaxStr}

XmlNodes ==
    {Node(NameR, <<>>, <<>>),
     [Node(NameR, <<>>, <<>>) EXCEPT !.key = <<<<"k", "'">>>>],
     Node(NameR, ObjFrom(SubSeq(SampleAttrs, 10, 9 + MaxAttrs)), <<>>),
     Node(NameR, <<>>, <<Node(NameR, <<IntAttr(1)>>, <<Node(NameN, <<>>, <<>>)>>)>>),
     Keyed(NameR),
     Node(SaveName, <<>>, <<Keyed(NameR), Node(NameN, <<>>, <<>>)>>)}
    \cup {Fan(NameR, k) : k \in 1..MaxChildren}
    \cup {Node(NameR, <<>>, [i \in 1..k |-> Node(NameN, <<>>, <<>>)]) : k \in 1..MaxChildren}
    \cup {Node(NameR, <<>>, <<Chain_(d)>>) : d \in 1..MaxDepth}

InitLsx ==
    /\ xmlNode \in XmlNodes
    /\ xmlNumeric \in BOOLEAN
    /\ xmlOut = None /\ escIn = None /\ escOut = None
    /\ IdleCodec /\ IdleLsv /\ IdleCall

\* serializeNode(node, 0, opts) of the current writer
SerializeNode ==
    /\ xmlOut = None
    /\ xmlOut' = [doc |-> serializeNode(xmlNode, [numericTypes |-> xmlNumeric,
                                                  lslibMeta |-> LslibMeta])]
    /\ UNCHANGED <<xmlNode, xmlNumeric, escIn, escOut>>
    /\ UNCHANGED <<codecVars, lsvVars, callVars>>

\* serializeNode(node, 0, opts) of src/lsx/lsx-writer.ts
SerializeNodeOld ==
    /\ xmlOut = None
    /\ xmlOut' = [doc |-> serializeNodeOld(xmlNode, [numericTypes |-> xmlNumeric,
                                                     lslibMeta |-> LslibMeta])]
    /\ UNCHANGED <<xmlNode, xmlNumeric, escIn, escOut>>
    /\ UNCHANGED <<codecVars, lsvVars, callVars>>

\* escapeXml(unsafe) of the current writer
EscapeXml ==
    /\ escOut = None
    /\ \E unsafe \in EscInputs :
          /\ escIn' = [text |-> unsafe]
          /\ escOut' = [text |-> escapeXml(unsafe)]
    /\ UNCHANGED <<xmlNode, xmlNumeric, xmlOut>>
    /\ UNCHANGED <<codecVars, lsvVars, callVars>>

\* escapeXml(unsafe) of src/lsx/lsx-writer.ts
EscapeXmlOld ==
    /\ escOut = None
    /\ \E unsafe \in EscInputs :
          /\ escIn' = [text |-> unsafe]
          /\ escOut' = [text |-> escapeXmlOld(unsafe)]
    /\ UNCHANGED <<xmlNode, xmlNumeric, xmlOut>>
    /\ UNCHANGED <<codecVars, lsvVars, callVars>>

NextLsx ==
    \/ SerializeNode
    \/ SerializeNodeOld
    \/ EscapeXml
    \/ EscapeXmlOld

SpecLsx == InitLsx /\ [][NextLsx]_vars

\* all nodes of a tree in pre-order
RECURSIVE AllNodes(_)
AllNodes(t) == <<t>> \o Flatten([i \in 1..Len(t.children) |-> AllNodes(t.children[i])])

IsEmptyNode(n) == n.attributes = <<>> /\ n.children = <<>>

HasKey(n) == n.key # <<>> /\ Len(n.key[1]) > 0

\* how many tags of a document are <node> tags of kind t (open, empty, close)
NodeTags(doc, t) == Len(SelectSeq(doc, LAMBDA x : x.tag = "node" /\ x.t = t))

\* C9: a node without attributes and children is written as one
\* self-closing <node/> tag (with its key when it has one) and never as an
\* open and close pair; every other node is written as an open/close pair
C9_EmptyNodeSelfClosing ==
    xmlOut # None =>
        /\ NodeTags(xmlOut.doc, "empty")
             = Len(SelectSeq(AllNodes(xmlNode), IsEmptyNode))
        /\ NodeTags(xmlOut.doc, "open")
             = Len(SelectSeq(AllNodes(xmlNode), LAMBDA n : ~IsEmptyNode(n)))
        /\ NodeTags(xmlOut.doc, "close") = NodeTags(xmlOut.doc, "open")
        /\ Len(SelectSeq(xmlOut.doc, LAMBDA x : x.tag = "node" /\ x.t = "empty"
                              /\ \E i \in 1..Len(x.attrs) : x.attrs[i][1] = "key"))
             = Len(SelectSeq(AllNodes(xmlNode), LAMBDA n : IsEmptyNode(n) /\ HasKey(n)))

\* the replacement the writer is to make for one character
EntityOf(c) ==
    CASE c = "<" -> <<"&", "l", "t", ";">>
      [] c = ">" -> <<"&", "g", "t", ";">>
      [] c = "&" -> <<"&", "a", "m", "p", ";">>
      [] c = "\"" -> <<"&", "q", "u", "o", "t", ";">>
      [] OTHER -> <<c>>

\* C10: in an escaped string <, >, & and " are replaced by &lt;, &gt;, &amp;
\* and &quot;, and the apostrophe is emitted as it is, never as &apos;
C10_ApostropheVerbatim ==
    escOut # None =>
        escOut.text = Flatten([i \in 1..Len(escIn.text) |-> EntityOf(escIn.text[i])])

-----------------------------------------------------------------------------
(* LSV packages.  A file content is [raw |-> bytes]; the output of a        *)
(* compression library is [method, data], the content it decodes to, and    *)
(* takes CodecSize bytes.  A header or a file-list entry is the list of    *)
(* the fields written into a zero-filled buffer.                           *)

LSPK_SIGNATURE == 1263555404
FILE_ENTRY_10_SIZE == 280
FILE_ENTRY_15_SIZE == 304
FILE_ENTRY_18_SIZE == 272
COMPRESSION_LZ4 == 2
LSPK_ALIGNMENT == 64
LSPK_PADDING_BYTE == 173
DEFAULT_LSV_FLAGS == 33
MANIFEST_NAME ==
    <<"_","_","m","a","n","i","f","e","s","t","_","_",".","j","s","o","n">>

Raw(bytes) == [raw |-> bytes]

\* the number of bytes a library writes for n bytes of input: the fixed
\* cost of the format and half of the input
CodecSize(method, n) == (IF method = 1 THEN 8 ELSE 1) + n \div 2

\* buffer.length
RECURSIVE Size(_)
Size(x) ==
    IF "raw" \in DOMAIN x THEN Len(x.raw)
    ELSE IF "entries" \in DOMAIN x THEN Len(x.entries) * x.entrySize
    ELSE IF "slice" \in DOMAIN x THEN x.length
    ELSE CodecSize(x.method, Size(x.data))

\* the method read from all the bits of the flags
AllFlagBits(flags) == flags

\* getCompressionMethod(flags): flags & 0x0f
getCompressionMethod(flags) == flags % 16

\* compress(data, flags)
compress(data, flags) ==
    IF getCompressionMethod(flags) = 0 THEN data
    ELSE IF getCompressionMethod(flags) \in {1, 2, 3}
    THEN [method |-> getCompressionMethod(flags), data |-> data]
    ELSE [err |-> "Unknown compression method"]

\* decompress(compressed, decompressedSize, flags): a library given bytes
\* that are not its own format fails
decompress(compressed, decompressedSize, flags) ==
    IF getCompressionMethod(flags) = 0
    THEN IF "raw" \in DOMAIN compressed
         THEN Raw(SubSeq(compressed.raw, 1, Min(decompressedSize, Len(compressed.raw))))
         ELSE IF decompressedSize >= Size(compressed) THEN compressed
         ELSE [slice |-> compressed, length |-> decompressedSize]
    ELSE IF getCompressionMethod(flags) \in {1, 2, 3}
    THEN IF "method" \in DOMAIN compressed
            /\ compressed.method = getCompressionMethod(flags)
         THEN compressed.data
         ELSE [err |-> "decompression failed"]
    ELSE [err |-> "Unknown compression method"]

\* crc32(buf): the checksum of a buffer, a function of its bytes
crc32(buf) == [crc32 |-> buf]

Field(at, bytes) == [at |-> at, bytes |-> bytes]

\* writeU32, writeU64 (values below 2^31), writeUInt16LE, writeUInt8
U32(val) == LE32(val)
U64(val) == LE32(val) \o <<0, 0, 0, 0>>
U16(val) == LE16(val)
U8(val) == <<val % 256>>

\* padNullTerminated(str, maxLen): the bytes copied into the zero buffer
padNullTerminated(str, maxLen) == SubSeq(Utf8(str), 1, Min(Len(str), maxLen - 1))

\* buf[p] of a zero-filled buffer into which the fields were written
ByteAt(fields, p) ==
    IF \E i \in 1..Len(fields) :
          fields[i].at <= p /\ p < fields[i].at + Len(fields[i].bytes)
    THEN LET i == CHOOSE i \in 1..Len(fields) :
                     /\ fields[i].at <= p /\ p < fields[i].at + Len(fields[i].bytes)
                     /\ \A j \in (i + 1)..Len(fields) :
                           ~(fields[j].at <= p /\ p < fields[j].at + Len(fields[j].bytes))
         IN  fields[i].bytes[p - fields[i].at + 1]
    ELSE 0

\* readUInt32LE / readUInt16LE
ReadU32(fields, at) ==
    ByteAt(fields, at) + 256 * ByteAt(fields, at + 1)
    + 65536 * ByteAt(fields, at + 2) + 16777216 * ByteAt(fields, at + 3)

ReadU16(fields, at) == ByteAt(fields, at) + 256 * ByteAt(fields, at + 1)

\* a byte of the decompressed file list, the concatenation of its entries
ListByte(list, p) ==
    IF p \div list.entrySize < Len(list.entries)
    THEN ByteAt(list.entries[(p \div list.entrySize) + 1], p % list.entrySize)
    ELSE 0

ListU32(list, at) ==
    ListByte(list, at) + 256 * ListByte(list, at + 1)
    + 65536 * ListByte(list, at + 2) + 16777216 * ListByte(list, at + 3)

\* nullTerminatedString of the 256 name bytes of the entry at base
RECURSIVE NameBytes(_, _, _)
NameBytes(list, base, k) ==
    IF k >= 256 \/ ListByte(list, base + k) = 0 THEN <<>>
    ELSE <<ListByte(list, base + k)>> \o NameBytes(list, base, k + 1)

nullTerminatedString(list, base) == FromUtf8(NameBytes(list, base, 0))

-----------------------------------------------------------------------------
(* Packers.  A directory is [files, manifest, lsvManifest]: its files as    *)
(* [name, content], the parsed __manifest__.json and the parsed             *)
(* .lsv.manifest.json, each <<>> when the file does not exist.              *)

\* a < b for strings, by UTF-16 code units as Array.prototype.sort compares
RECURSIVE NameLess(_, _)
NameLess(a, b) ==
    IF b = <<>> THEN FALSE
    ELSE IF a = <<>> THEN TRUE
    ELSE IF CharCode(a[1]) # CharCode(b[1]) THEN CharCode(a[1]) < CharCode(b[1])
    ELSE NameLess(Tail(a), Tail(b))

\* names.sort()
RECURSIVE SortNames(_)
SortNames(names) ==
    IF names = {} THEN <<>>
    ELSE LET first == CHOOSE n \in names : \A m \in names \ {n} : NameLess(n, m)
         IN  <<first>> \o SortNames(names \ {first})

\* rel.split("/").some((p) => p.startsWith("."))
IsHidden(rel) ==
    \E i \in 1..Len(rel) : rel[i] = "." /\ (i = 1 \/ rel[i - 1] = "/")

FileNames(dir) == {dir.files[i].name : i \in 1..Len(dir.files)}

existsSync(dir, name) == name \in FileNames(dir)

readFileSync(dir, name) ==
    dir.files[CHOOSE i \in 1..Len(dir.files) : dir.files[i].name = name].content

WithDefaultFlags(names) ==
    [i \in 1..Len(names) |-> [name |-> names[i], flags |-> DEFAULT_LSV_FLAGS]]

\* the scan without the two tests for the name of the manifest
scanDirectoryUnfiltered(dir) ==
    IF dir.manifest # <<>> /\ Len(dir.manifest[1].files) > 0
    THEN [files |->
            [i \in 1..Len(dir.manifest[1].files) |->
               [name |-> dir.manifest[1].files[i].name,
                flags |-> IF "flags" \in DOMAIN dir.manifest[1].files[i]
                          THEN dir.manifest[1].files[i].flags
                          ELSE DEFAULT_LSV_FLAGS]],
          headerFlags |-> dir.manifest[1].flags,
          headerPriority |-> dir.manifest[1].priority]
    ELSE [files |-> WithDefaultFlags(SortNames({n \in FileNames(dir) : ~IsHidden(n)})),
          headerFlags |-> <<>>, headerPriority |-> <<>>]

\* scanDirectoryWithManifest: order and flags of __manifest__.json when it
\* lists files, else the sorted files that are not hidden
scanDirectoryWithManifest(dir) ==
    IF dir.manifest # <<>> /\ Len(dir.manifest[1].files) > 0
    THEN [files |->
            [i \in 1..Len(SelectSeq(dir.manifest[1].files,
                                    LAMBDA f : f.name # MANIFEST_NAME)) |->
               LET f == SelectSeq(dir.manifest[1].files,
                                  LAMBDA g : g.name # MANIFEST_NAME)[i]
               IN  [name |-> f.name,
                    flags |-> IF "flags" \in DOMAIN f THEN f.flags
                              ELSE DEFAULT_LSV_FLAGS]],
          headerFlags |-> dir.manifest[1].flags,
          headerPriority |-> dir.manifest[1].priority]
    ELSE [files |-> WithDefaultFlags(SortNames(
                       {n \in FileNames(dir) : n # MANIFEST_NAME /\ ~IsHidden(n)})),
          headerFlags |-> <<>>, headerPriority |-> <<>>]

\* scanDirectory of the packer without manifest support
scanDirectory(dir) ==
    WithDefaultFlags(SortNames({n \in FileNames(dir) : ~IsHidden(n)}))

\* one turn of the packing loop: the file as it is laid out at offset
PackedFile(f, raw, compressed, offset, withCrc) ==
    [name |-> f.name, flags |-> f.flags, uncompressedSize |-> Size(raw),
     archivePart |-> 0,
     crc |-> IF withCrc THEN <<crc32(compressed)>> ELSE <<>>,
     offset |-> offset, sizeOnDisk |-> Size(compressed), compressed |-> compressed]

\* the offset after a file: with alignment the next multiple of 64
NextOffset(offset, length, useAlignment) ==
    IF useAlignment THEN CeilTo(offset + length, LSPK_ALIGNMENT) ELSE offset + length

\* the loop over filesToPack of packLsv (both packers that scan); raws are
\* the file contents
RECURSIVE PackLoop(_, _, _, _, _, _)
PackLoop(files, raws, i, offset, useAlignment, withCrc) ==
    IF i > Len(files) THEN <<>>
    ELSE <<PackedFile(files[i], raws[i],
                      IF files[i].flags = 0 THEN raws[i]
                      ELSE compress(raws[i], files[i].flags),
                      offset, withCrc)>>
         \o PackLoop(files, raws, i + 1,
                     NextOffset(offset,
                                Size(IF files[i].flags = 0 THEN raws[i]
                                     ELSE compress(raws[i], files[i].flags)),
                                useAlignment),
                     useAlignment, withCrc)

\* dataChunks: each payload, followed by its padding when there is any
DataChunks(packed, useAlignment, padByte) ==
    Flatten([i \in 1..Len(packed) |->
        <<[at |-> packed[i].offset, payload |-> packed[i].compressed]>>
        \o (IF useAlignment
               /\ NextOffset(packed[i].offset, packed[i].sizeOnDisk, TRUE)
                    > packed[i].offset + packed[i].sizeOnDisk
            THEN <<[at |-> packed[i].offset + packed[i].sizeOnDisk,
                    pad |-> NextOffset(packed[i].offset, packed[i].sizeOnDisk, TRUE)
                              - packed[i].offset - packed[i].sizeOnDisk,
                    fill |-> padByte]>>
            ELSE <<>>)])

\* dataBlock.length
DataLength(packed, useAlignment) ==
    IF packed = <<>> THEN 0
    ELSE NextOffset(packed[Len(packed)].offset, packed[Len(packed)].sizeOnDisk,
                    useAlignment)

\* f.uncompressedSize || sizesOnDisk[i]
SizeOr(f) == IF f.uncompressedSize # 0 THEN f.uncompressedSize ELSE f.sizeOnDisk

\* buildFileListV13: FileEntry15 entries of 304 bytes with the CRC
buildFileListV13(packed) ==
    [entrySize |-> FILE_ENTRY_15_SIZE,
     entries |-> [i \in 1..Len(packed) |->
        <<Field(0, padNullTerminated(packed[i].name, 256)),
          Field(256, U64(packed[i].offset)),
          Field(264, U64(packed[i].sizeOnDisk)),
          Field(272, U64(SizeOr(packed[i]))),
          Field(280, U32(packed[i].archivePart)),
          Field(284, U32(packed[i].flags % 16)),
          Field(292, U32(0))>>],
     crcs |-> [i \in 1..Len(packed) |-> packed[i].crc]]

\* buildFileListDOS2: entries of 280 bytes
buildFileListDOS2(packed) ==
    [entrySize |-> FILE_ENTRY_10_SIZE,
     entries |-> [i \in 1..Len(packed) |->
        <<Field(0, padNullTerminated(packed[i].name, 256)),
          Field(256, U32(packed[i].offset)),
          Field(260, U32(packed[i].sizeOnDisk)),
          Field(264, U32(SizeOr(packed[i]))),
          Field(268, U32(packed[i].archivePart)),
          Field(272, U32(packed[i].flags))>>],
     crcs |-> [i \in 1..Len(packed) |-> <<>>]]

\* buildFileListBG3: FileEntry18 entries of 272 bytes
buildFileListBG3(packed, dataStartOffset) ==
    [entrySize |-> FILE_ENTRY_18_SIZE,
     entries |-> [i \in 1..Len(packed) |->
        <<Field(0, padNullTerminated(packed[i].name, 256)),
          Field(256, U32(dataStartOffset + packed[i].offset)),
          Field(260, U16(0)),
          Field(262, U8(packed[i].archivePart)),
          Field(263, U8(packed[i].flags)),
          Field(264, U32(packed[i].sizeOnDisk)),
          Field(268, U32(SizeOr(packed[i])))>>],
     crcs |-> [i \in 1..Len(packed) |-> <<>>]]

IsBG3Version(pkgVersion) == pkgVersion \in {15, 16, 18}

\* the LSPKHeader16 of a BG3 package: 40 bytes at the start of the file
HeaderBG3(pkgVersion, dataLength, fileListSize) ==
    <<Field(0, U32(LSPK_SIGNATURE)), Field(4, U32(pkgVersion)),
      Field(8, U64(40 + dataLength)), Field(16, U32(fileListSize)),
      Field(20, U8(0)), Field(21, U8(0)), Field(38, U16(1))>>

\* Buffer.concat([header, dataBlock, numFilesBuf, compressedSizeBuf,
\* compressedFileList])
PackageBG3(pkgVersion, chunks, dataLength, numFiles, compressedFileList) ==
    [layout |-> "header",
     header |-> HeaderBG3(pkgVersion, dataLength, 4 + 4 + Size(compressedFileList)),
     data |-> chunks, dataLength |-> dataLength, numFiles |-> numFiles,
     compressedSize |-> Size(compressedFileList),
     fileList |-> compressedFileList]

\* Buffer.concat([dataBlock, fileListRaw, trailer]): the 32 header bytes,
\* the trailer size and the signature
PackageDOS2(headerFields, chunks, dataLength, numFiles, compressedFileList) ==
    [layout |-> "trailer",
     data |-> chunks, dataLength |-> dataLength, numFiles |-> numFiles,
     fileList |-> compressedFileList,
     trailer |-> headerFields \o <<Field(32, U32(40)), Field(36, U32(LSPK_SIGNATURE))>>]

\* the end of packLsv: the file list is compressed and the package put
\* together; header14 are the flags and priority bytes when they are written
Assemble(pkgVersion, chunks, dataLength, numFiles, fileList, header14) ==
    IF Size(compress(fileList, COMPRESSION_LZ4)) > Size(fileList)
    THEN [err |-> "File list compression fehlgesch"]
    ELSE IF IsBG3Version(pkgVersion)
    THEN PackageBG3(pkgVersion, chunks, dataLength, numFiles,
                    compress(fileList, COMPRESSION_LZ4))
    ELSE PackageDOS2(<<Field(0, U32(pkgVersion)), Field(4, U32(dataLength)),
                       Field(8, U32(4 + Size(compress(fileList, COMPRESSION_LZ4)))),
                       Field(12, U16(1))>> \o header14,
                     chunks, dataLength, numFiles,
                     compress(fileList, COMPRESSION_LZ4))

OrZero(opt) == IF opt = <<>> THEN 0 ELSE opt[1]

\* packLsv of the packer with manifest support, CRC and 0xAD padding
PackScanned(dir, pkgVersion, scan, packed) ==
    Assemble(pkgVersion,
             DataChunks(packed, ~IsBG3Version(pkgVersion), LSPK_PADDING_BYTE),
             DataLength(packed, ~IsBG3Version(pkgVersion)),
             Len(packed),
             IF IsBG3Version(pkgVersion) THEN buildFileListBG3(packed, 40)
             ELSE IF pkgVersion = 13 THEN buildFileListV13(packed)
             ELSE buildFileListDOS2(packed),
             <<Field(14, U8(OrZero(scan.headerFlags))),
               Field(15, U8(OrZero(scan.headerPriority)))>>)

PackFrom(dir, pkgVersion, scan) ==
    IF \E i \in 1..Len(scan.files) : ~existsSync(dir, scan.files[i].name)
    THEN [err |-> "Datei nicht gefunden"]
    ELSE IF \E i \in 1..Len(scan.files) :
               scan.files[i].flags # 0 /\ getCompressionMethod(scan.files[i].flags) > 3
    THEN [err |-> "Unknown compression method"]
    ELSE PackScanned(dir, pkgVersion, scan,
            PackLoop(scan.files,
                     [i \in 1..Len(scan.files) |-> readFileSync(dir, scan.files[i].name)],
                     1, 0, ~IsBG3Version(pkgVersion), pkgVersion >= 10 /\ pkgVersion <= 16))

packLsv(dir, pkgVersion) == PackFrom(dir, pkgVersion, scanDirectoryWithManifest(dir))

\* packLsv of the packer that scans the directory and pads with zero bytes
PackScanned006(pkgVersion, packed) ==
    Assemble(pkgVersion,
             DataChunks(packed, ~IsBG3Version(pkgVersion), 0),
             DataLength(packed, ~IsBG3Version(pkgVersion)),
             Len(packed),
             IF IsBG3Version(pkgVersion) THEN buildFileListBG3(packed, 40)
             ELSE buildFileListDOS2(packed),
             <<>>)

packLsv006(dir, pkgVersion) ==
    PackScanned006(pkgVersion,
        PackLoop(scanDirectory(dir),
                 [i \in 1..Len(scanDirectory(dir)) |->
                     readFileSync(dir, scanDirectory(dir)[i].name)],
                 1, 0, ~IsBG3Version(pkgVersion), FALSE))

\* the loop of packLsv of src/lsv/packer.ts: sizes and flags of the
\* manifest, payloads one after the other
RECURSIVE PackLoopOld(_, _, _, _)
PackLoopOld(files, raws, i, offset) ==
    IF i > Len(files) THEN <<>>
    ELSE <<[name |-> files[i].name, flags |-> files[i].flags,
            uncompressedSize |-> files[i].uncompressedSize,
            archivePart |-> files[i].archivePart, crc |-> <<>>,
            offset |-> offset,
            sizeOnDisk |-> Size(IF files[i].flags = 0 \/ files[i].uncompressedSize = 0
                                THEN raws[i] ELSE compress(raws[i], files[i].flags)),
            compressed |-> IF files[i].flags = 0 \/ files[i].uncompressedSize = 0
                           THEN raws[i] ELSE compress(raws[i], files[i].flags)]>>
         \o PackLoopOld(files, raws, i + 1,
                        offset + Size(IF files[i].flags = 0 \/ files[i].uncompressedSize = 0
                                      THEN raws[i] ELSE compress(raws[i], files[i].flags)))

PackManifest(manifest, packed) ==
    Assemble(IF IsBG3Version(manifest.version) THEN manifest.version
             ELSE IF manifest.version # 0 THEN manifest.version ELSE 13,
             DataChunks(packed, FALSE, 0),
             DataLength(packed, FALSE),
             Len(packed),
             IF IsBG3Version(manifest.version) THEN buildFileListBG3(packed, 40)
             ELSE buildFileListDOS2(packed),
             <<>>)

\* packLsv of src/lsv/packer.ts: loadManifest, then the files it lists
packLsvOld(dir) ==
    IF dir.lsvManifest = <<>> THEN [err |-> "Kein Manifest gefunden"]
    ELSE IF \E i \in 1..Len(dir.lsvManifest[1].files) :
               ~existsSync(dir, dir.lsvManifest[1].files[i].name)
    THEN [err |-> "Datei nicht gefunden"]
    ELSE PackManifest(dir.lsvManifest[1],
            PackLoopOld(dir.lsvManifest[1].files,
                        [i \in 1..Len(dir.lsvManifest[1].files) |->
                            readFileSync(dir, dir.lsvManifest[1].files[i].name)],
                        1, 0))

-----------------------------------------------------------------------------
(* Unpacker (src/lsv/unpacker.ts).  The first payload of a package with a  *)
(* trailer is taken not to begin with the LSPK signature.                  *)

\* data.length of a package file
PkgSize(pkg) ==
    IF pkg.layout = "header" THEN 40 + pkg.dataLength + 8 + Size(pkg.fileList)
    ELSE pkg.dataLength + 4 + Size(pkg.fileList) + 40

\* where the file list starts in the file
ListOffset(pkg) == IF pkg.layout = "header" THEN 40 + pkg.dataLength ELSE pkg.dataLength

\* readHeader: the header at the start of a BG3 package, else the trailer
readHeader(pkg) ==
    IF pkg.layout = "header"
    THEN IF ReadU32(pkg.header, 0) = LSPK_SIGNATURE /\ PkgSize(pkg) >= 44
            /\ ReadU32(pkg.header, 4) \in {15, 16, 18}
         THEN [version |-> ReadU32(pkg.header, 4),
               fileListOffset |-> ReadU32(pkg.header, 8),
               fileListSize |-> ReadU32(pkg.header, 16),
               numParts |-> ReadU16(pkg.header, 38),
               numFiles |-> 0, headerAtStart |-> TRUE]
         ELSE [err |-> "Invalid LSV signature"]
    ELSE IF ReadU32(pkg.trailer, 36) # LSPK_SIGNATURE \/ ReadU32(pkg.trailer, 32) # 40
    THEN [err |-> "Invalid LSV signature"]
    ELSE [version |-> ReadU32(pkg.trailer, 0),
          fileListOffset |-> ReadU32(pkg.trailer, 4),
          fileListSize |-> ReadU32(pkg.trailer, 8),
          numParts |-> ReadU16(pkg.trailer, 10),
          numFiles |-> 0, headerAtStart |-> FALSE]

\* one entry of the file list, read with the offsets of its entry size
ReadEntry(list, base, entrySize) ==
    IF entrySize = FILE_ENTRY_18_SIZE
    THEN [name |-> nullTerminatedString(list, base),
          archivePart |-> ListByte(list, base + 262),
          offsetInFile |-> ListU32(list, base + 256),
          sizeOnDisk |-> ListU32(list, base + 264),
          uncompressedSize |-> IF ListU32(list, base + 268) # 0
                               THEN ListU32(list, base + 268)
                               ELSE ListU32(list, base + 264),
          flags |-> ListByte(list, base + 263)]
    ELSE IF entrySize = FILE_ENTRY_15_SIZE
    THEN [name |-> nullTerminatedString(list, base),
          archivePart |-> ListU32(list, base + entrySize - 12),
          offsetInFile |-> ListU32(list, base + 256),
          sizeOnDisk |-> ListU32(list, base + 264),
          uncompressedSize |-> IF ListU32(list, base + 272) # 0
                               THEN ListU32(list, base + 272)
                               ELSE ListU32(list, base + 264),
          flags |-> ListU32(list, base + entrySize - 8)]
    ELSE [name |-> nullTerminatedString(list, base),
          archivePart |-> ListU32(list, base + entrySize - 12),
          offsetInFile |-> ListU32(list, base + 256),
          sizeOnDisk |-> ListU32(list, base + 260),
          uncompressedSize |-> IF ListU32(list, base + 264) # 0
                               THEN ListU32(list, base + 264)
                               ELSE ListU32(list, base + 260),
          flags |-> ListU32(list, base + entrySize - 8)]

ReadEntries(list, numFiles, entrySize) ==
    IF Size(list) < numFiles * entrySize
    THEN [err |-> "Decompressed file list too small"]
    ELSE [files |-> [i \in 1..numFiles |-> ReadEntry(list, (i - 1) * entrySize, entrySize)]]

\* the decompressed list: entries of 272 bytes for version 18, else of 304
\* bytes when the list is long enough for them, else of 280
ReadList(pkgVersion, numFiles, list) ==
    IF IsErr(list) THEN list
    ELSE ReadEntries(list, numFiles,
            IF pkgVersion = 18 THEN FILE_ENTRY_18_SIZE
            ELSE IF Size(list) >= numFiles * FILE_ENTRY_15_SIZE THEN FILE_ENTRY_15_SIZE
            ELSE FILE_ENTRY_10_SIZE)

\* readFileListV13
readFileListV13(pkg, header) ==
    IF header.fileListOffset >= PkgSize(pkg) THEN [err |-> "Invalid file list offset"]
    ELSE IF header.fileListOffset # ListOffset(pkg)
            \/ (header.version > 13) # (pkg.layout = "header")
            \/ (IF header.version > 13 THEN pkg.compressedSize
                ELSE header.fileListSize - 4) # Size(pkg.fileList)
    THEN [err |-> "LZ4 decompression failed"]
    ELSE ReadList(header.version, pkg.numFiles,
                  decompress(pkg.fileList,
                             pkg.numFiles * (IF header.version = 18
                                             THEN FILE_ENTRY_18_SIZE
                                             ELSE FILE_ENTRY_15_SIZE),
                             COMPRESSION_LZ4))

\* data.subarray(actualOffset, actualOffset + size)
ChunkAt(pkg, actualOffset, size) ==
    LET base == IF pkg.layout = "header" THEN 40 ELSE 0
        hit == {i \in 1..Len(pkg.data) :
                   /\ "payload" \in DOMAIN pkg.data[i]
                   /\ pkg.data[i].at + base = actualOffset
                   /\ Size(pkg.data[i].payload) = size}
    IN  IF size = 0 THEN Raw(<<>>)
        ELSE IF hit # {} THEN pkg.data[CHOOSE i \in hit : TRUE].payload
        ELSE [slice |-> <<actualOffset, size>>, length |-> size]

\* extractFile without the test of the slice against the end of the buffer
extractFileUnchecked(pkg, file) ==
    IF file.archivePart # 0 THEN [err |-> "Multi-part packages not yet supported"]
    ELSE IF file.flags = 0 \/ file.uncompressedSize = 0
    THEN ChunkAt(pkg, file.offsetInFile, file.sizeOnDisk)
    ELSE decompress(ChunkAt(pkg, file.offsetInFile, file.sizeOnDisk),
                    file.uncompressedSize, file.flags)

\* extractFile(data, file, 0)
extractFile(pkg, file) ==
    IF file.archivePart # 0 THEN [err |-> "Multi-part packages not yet supported"]
    ELSE IF file.offsetInFile + file.sizeOnDisk > PkgSize(pkg)
    THEN [err |-> "exceeds file length"]
    ELSE IF file.flags = 0 \/ file.uncompressedSize = 0
    THEN ChunkAt(pkg, file.offsetInFile, file.sizeOnDisk)
    ELSE decompress(ChunkAt(pkg, file.offsetInFile, file.sizeOnDisk),
                    file.uncompressedSize, file.flags)

\* the directory unpackLsv leaves behind
Extracted(header, files, contents, withManifest) ==
    IF \E i \in 1..Len(contents) : IsErr(contents[i])
    THEN contents[CHOOSE i \in 1..Len(contents) :
                     IsErr(contents[i]) /\ \A j \in 1..(i - 1) : ~IsErr(contents[j])]
    ELSE [files |-> [i \in 1..Len(files) |->
                        [name |-> files[i].name, content |-> contents[i]]],
          manifest |-> <<>>,
          lsvManifest |->
             IF withManifest
             THEN <<[version |-> header.version,
                     files |-> [i \in 1..Len(files) |->
                                   [name |-> files[i].name, flags |-> files[i].flags,
                                    uncompressedSize |-> files[i].uncompressedSize,
                                    archivePart |-> files[i].archivePart]]]>>
             ELSE <<>>]

UnpackFiles(pkg, header, list, withManifest) ==
    IF IsErr(list) THEN list
    ELSE Extracted(header, list.files,
                   [i \in 1..Len(list.files) |-> extractFile(pkg, list.files[i])],
                   withManifest)

UnpackWith(pkg, header, withManifest) ==
    IF IsErr(header) THEN header
    ELSE UnpackFiles(pkg, header, readFileListV13(pkg, header), withManifest)

\* unpackLsv(inputPath, outputDir, { manifest })
unpackLsv(pkg, withManifest) == UnpackWith(pkg, readHeader(pkg), withManifest)

-----------------------------------------------------------------------------
(* Packages: a directory is packed by one of the packers, the package is   *)
(* unpacked, and the unpacked directory is packed again as version 13.     *)

MaxFiles == 2

FileSizes == {3, 112, 114}
FileNamesInOrder == <<<<"a">>, <<"b">>, <<"c">>, <<"d">>>>
PackageVersions == {10, 13, 15, 16, 18}

Content(tag, n) == Raw([i \in 1..n |-> tag])

FileSets ==
    UNION {{[i \in 1..n |-> [name |-> FileNamesInOrder[i], content |-> Content(i, sz[i])]] :
               sz \in [1..n -> FileSizes]} : n \in 1..MaxFiles}

\* the __manifest__.json files a directory may hold
Manifests(files) ==
    {<<>>}
    \cup {<<[files |-> [i \in 1..Len(files) |->
                          [name |-> files[Len(files) + 1 - i].name, flags |-> f]],
             flags |-> <<>>, priority |-> <<>>]>> : f \in {0, 2}}
    \cup {<<[files |-> [i \in 1..Len(files) |-> [name |-> files[i].name]],
             flags |-> <<1>>, priority |-> <<2>>]>>}

\* the .lsv.manifest.json files a directory may hold
LsvManifests(files, pkgVersion) ==
    {<<>>,
     <<[version |-> pkgVersion,
        files |-> [i \in 1..Len(files) |->
                     [name |-> files[i].name, flags |-> DEFAULT_LSV_FLAGS,
                      uncompressedSize |-> Size(files[i].content),
                      archivePart |-> 0]]]>>}

InitLsv ==
    /\ lsvVersion \in PackageVersions
    /\ \E files \in FileSets :
          \E m \in Manifests(files) :
             \E lm \in LsvManifests(files, lsvVersion) :
                lsvDir = [files |-> files, manifest |-> m, lsvManifest |-> lm]
    /\ lsvPkg = None /\ lsvUnpacked = None /\ lsvRepacked = None
    /\ IdleCodec /\ IdleLsx /\ IdleCall

PackLsv ==
    /\ lsvPkg = None
    /\ lsvPkg' = [rev |-> "part_005", file |-> packLsv(lsvDir, lsvVersion)]
    /\ UNCHANGED <<lsvDir, lsvVersion, lsvUnpacked, lsvRepacked>>
    /\ UNCHANGED <<codecVars, lsxVars, callVars>>

PackLsv006 ==
    /\ lsvPkg = None
    /\ lsvPkg' = [rev |-> "part_006", file |-> packLsv006(lsvDir, lsvVersion)]
    /\ UNCHANGED <<lsvDir, lsvVersion, lsvUnpacked, lsvRepacked>>
    /\ UNCHANGED <<codecVars, lsxVars, callVars>>

PackLsvOld ==
    /\ lsvPkg = None
    /\ lsvPkg' = [rev |-> "packer.ts", file |-> packLsvOld(lsvDir)]
    /\ UNCHANGED <<lsvDir, lsvVersion, lsvUnpacked, lsvRepacked>>
    /\ UNCHANGED <<codecVars, lsxVars, callVars>>

UnpackLsv ==
    /\ lsvPkg # None /\ ~IsErr(lsvPkg.file)
    /\ lsvUnpacked = None
    /\ \E withManifest \in BOOLEAN :
          lsvUnpacked' = unpackLsv(lsvPkg.file, withManifest)
    /\ UNCHANGED <<lsvDir, lsvVersion, lsvPkg, lsvRepacked>>
    /\ UNCHANGED <<codecVars, lsxVars, callVars>>

\* packLsv(unpackDir, repackPath, { version: 13 })
Repack ==
    /\ lsvUnpacked # None /\ ~IsErr(lsvUnpacked)
    /\ lsvRepacked = None
    /\ lsvRepacked' = packLsv(lsvUnpacked, 13)
    /\ UNCHANGED <<lsvDir, lsvVersion, lsvPkg, lsvUnpacked>>
    /\ UNCHANGED <<codecVars, lsxVars, callVars>>

NextLsv ==
    \/ PackLsv
    \/ PackLsv006
    \/ PackLsvOld
    \/ UnpackLsv
    \/ Repack

SpecLsv == InitLsv /\ [][NextLsv]_vars

-----------------------------------------------------------------------------
(* Claims about packages                                                    *)

\* the bytes of the entries of a file list
ListBytes(list) ==
    [i \in 1..Len(list.entries) |->
        [p \in 0..(list.entrySize - 1) |-> ByteAt(list.entries[i], p)]]

\* the bytes of a package with a trailer: data block, file list, trailer
FileBytes(pkg) ==
    IF IsErr(pkg) THEN pkg
    ELSE [data |-> pkg.data, numFiles |-> pkg.numFiles,
          entries |-> ListBytes(pkg.fileList.data),
          crcs |-> pkg.fileList.data.crcs,
          trailer |-> [p \in 0..39 |-> ByteAt(pkg.trailer, p)]]

IsV13Package(pkg) == pkg.layout = "trailer" /\ ReadU32(pkg.trailer, 0) = 13

\* C4: a version 13 package that is unpacked and packed again as version 13
\* is reproduced byte for byte: data block, file list and trailer.
C4_RepackIdentical ==
    (lsvRepacked # None /\ IsV13Package(lsvPkg.file))
        => FileBytes(lsvRepacked) = FileBytes(lsvPkg.file)

IsPayload(chunk) == "payload" \in DOMAIN chunk

Payloads(pkg) == SelectSeq(pkg.data, IsPayload)

\* C7: in a package with the DOS2 layout every payload starts at a multiple
\* of 64, payloads do not overlap, fewer than 64 padding bytes follow a
\* payload and each of them is 0xAD; in a package with the BG3 layout the
\* payloads follow one another without padding.
C7_PayloadsAligned ==
    (lsvPkg # None /\ ~IsErr(lsvPkg.file)) =>
        IF lsvPkg.file.layout = "trailer"
        THEN /\ \A i \in 1..Len(lsvPkg.file.data) :
                   IF IsPayload(lsvPkg.file.data[i])
                   THEN lsvPkg.file.data[i].at % 64 = 0
                   ELSE lsvPkg.file.data[i].pad < 64 /\ lsvPkg.file.data[i].fill = 173
             /\ \A i \in 1..(Len(Payloads(lsvPkg.file)) - 1) :
                   Payloads(lsvPkg.file)[i].at + Size(Payloads(lsvPkg.file)[i].payload)
                      <= Payloads(lsvPkg.file)[i + 1].at
        ELSE /\ \A i \in 1..Len(lsvPkg.file.data) : IsPayload(lsvPkg.file.data[i])
             /\ lsvPkg.file.data[1].at = 0
             /\ \A i \in 1..(Len(lsvPkg.file.data) - 1) :
                   lsvPkg.file.data[i + 1].at
                      = lsvPkg.file.data[i].at + Size(lsvPkg.file.data[i].payload)

-----------------------------------------------------------------------------
(* Numbers.  A float32 or a double is a binary fraction and has a finite   *)
(* decimal expansion, so the arithmetic of formatFloat is done on exact    *)
(* decimals: a natural number is the sequence of its decimal digits, units *)
(* first and without leading zeros (<<>> is 0), and a decimal is           *)
(* [ds, sc], the natural ds divided by 10^sc.                              *)

\* drop the leading zeros (the last elements) of a digit sequence
BigNorm(ds) ==
    IF \A i \in 1..Len(ds) : ds[i] = 0 THEN <<>>
    ELSE SubSeq(ds, 1, CHOOSE i \in 1..Len(ds) :
                           ds[i] # 0 /\ \A j \in (i + 1)..Len(ds) : ds[j] = 0)

RECURSIVE BigOfNat(_)
BigOfNat(n) == IF n = 0 THEN <<>> ELSE <<n % 10>> \o BigOfNat(n \div 10)

\* ds with zeros in front of it, n digits in all
BigPad(ds, n) == ds \o [i \in 1..(n - Len(ds)) |-> 0]

\* The digit-by-digit operations work on one half of the digits and then,
\* with the carry of that half, on the other: a part is the digits of the
\* result and the carry out of them.
Part(ds, carry) == [ds |-> ds, carry |-> carry]

PartCat(lo, hi) == Part(lo.ds \o hi.ds, hi.carry)

LowHalf(ds) == SubSeq(ds, 1, Len(ds) \div 2)

HighHalf(ds) == SubSeq(ds, Len(ds) \div 2 + 1, Len(ds))

RECURSIVE MulPart(_, _, _)
RECURSIVE MulJoin(_, _, _)
MulPart(ds, c, carry) ==
    IF ds = <<>> THEN Part(<<>>, carry)
    ELSE IF Len(ds) = 1
    THEN Part(<<(ds[1] * c + carry) % 10>>, (ds[1] * c + carry) \div 10)
    ELSE IF Len(ds) = 2
    THEN Part(<<(ds[1] * c + carry) % 10, ((ds[1] + 10 * ds[2]) * c + carry) \div 10 % 10>>,
              ((ds[1] + 10 * ds[2]) * c + carry) \div 100)
    ELSE MulJoin(MulPart(LowHalf(ds), c, carry), HighHalf(ds), c)

MulJoin(lo, ds, c) == PartCat(lo, MulPart(ds, c, lo.carry))

\* ds * c + carry for a small c
BigMul(ds, c, carry) == MulPart(ds, c, carry).ds \o BigOfNat(MulPart(ds, c, carry).carry)

RECURSIVE SmallPow(_, _)
SmallPow(c, k) == IF k = 0 THEN 1 ELSE c * SmallPow(c, k - 1)

\* ds * c^k for c = 2 or c = 5, at most ten factors at a time
RECURSIVE BigPow(_, _, _)
BigPow(ds, c, k) ==
    IF ds = <<>> \/ k = 0 THEN ds
    ELSE IF k <= 10 THEN BigMul(ds, SmallPow(c, k), 0)
    ELSE BigPow(BigPow(ds, c, k \div 2), c, k - k \div 2)

\* ds * 10^k
BigShift(ds, k) == IF ds = <<>> THEN <<>> ELSE [i \in 1..k |-> 0] \o ds

\* -1, 0 or 1 as a < b, a = b or a > b, for two numbers of n digits
BigTop(a, b, n) == CHOOSE i \in 1..n : a[i] # b[i] /\ \A j \in (i + 1)..n : a[j] = b[j]

BigCmpAt(a, b, n) ==
    IF \A i \in 1..n : a[i] = b[i] THEN 0
    ELSE IF a[BigTop(a, b, n)] < b[BigTop(a, b, n)] THEN -1 ELSE 1

BigCmp(a, b) ==
    IF Len(a) < Len(b) THEN -1
    ELSE IF Len(a) > Len(b) THEN 1
    ELSE BigCmpAt(a, b, Len(a))

RECURSIVE AddPart(_, _, _)
RECURSIVE AddJoin(_, _, _)
AddPart(a, b, carry) ==
    IF a = <<>> THEN Part(<<>>, carry)
    ELSE IF Len(a) = 1
    THEN Part(<<(a[1] + b[1] + carry) % 10>>, (a[1] + b[1] + carry) \div 10)
    ELSE AddJoin(AddPart(LowHalf(a), LowHalf(b), carry), HighHalf(a), HighHalf(b))

AddJoin(lo, a, b) == PartCat(lo, AddPart(a, b, lo.carry))

AddEnd(part) == part.ds \o BigOfNat(part.carry)

\* a + b + carry
BigAdd(a, b, carry) ==
    AddEnd(AddPart(BigPad(a, Max(Len(a), Len(b))), BigPad(b, Max(Len(a), Len(b))), carry))

RECURSIVE SubPart(_, _, _)
RECURSIVE SubJoin(_, _, _)
SubPart(a, b, borrow) ==
    IF a = <<>> THEN Part(<<>>, borrow)
    ELSE IF Len(a) = 1
    THEN Part(<<(a[1] - b[1] - borrow + 10) % 10>>,
              IF a[1] - b[1] - borrow < 0 THEN 1 ELSE 0)
    ELSE SubJoin(SubPart(LowHalf(a), LowHalf(b), borrow), HighHalf(a), HighHalf(b))

SubJoin(lo, a, b) == PartCat(lo, SubPart(a, b, lo.carry))

\* a - b for a >= b, before the leading zeros are dropped
BigSubRaw(a, b, borrow) == SubPart(a, BigPad(b, Len(a)), borrow).ds

\* |a - b|
BigDiff(a, b) ==
    IF BigCmp(a, b) >= 0 THEN BigNorm(BigSubRaw(a, b, 0)) ELSE BigNorm(BigSubRaw(b, a, 0))

Dec(ds, sc) == [ds |-> ds, sc |-> sc]

\* the digits of a decimal at the scale sc >= x.sc
DecAt(x, sc) == BigShift(x.ds, sc - x.sc)

DecCmp(x, y) == BigCmp(DecAt(x, Max(x.sc, y.sc)), DecAt(y, Max(x.sc, y.sc)))

\* |x - y|
DecDiff(x, y) ==
    Dec(BigDiff(DecAt(x, Max(x.sc, y.sc)), DecAt(y, Max(x.sc, y.sc))), Max(x.sc, y.sc))

\* x * 10^d
DecScale(x, d) == IF x.sc >= d THEN Dec(x.ds, x.sc - d) ELSE Dec(BigShift(x.ds, d - x.sc), 0)

\* the integer part of a decimal, and how its fraction compares with 1/2
DecFloor(x) == IF x.sc >= Len(x.ds) THEN <<>> ELSE SubSeq(x.ds, x.sc + 1, Len(x.ds))

DecHalf(x) ==
    IF x.sc = 0 THEN -1
    ELSE DecCmp(Dec(BigNorm(SubSeq(x.ds, 1, Min(x.sc, Len(x.ds)))), x.sc), Dec(<<5>>, 1))

IsOdd(ds) == ds # <<>> /\ ds[1] % 2 = 1

\* A float32 is [neg, num, pw], the value num * 2^pw with its sign: num is
\* the 24-bit significand (below 2^23 only for pw = -149, the subnormals).
\* A number, a double, is [neg, mag] with the exact decimal mag.
F32(neg, num, pw) == [neg |-> neg, num |-> num, pw |-> pw]

Num(neg, mag) == [neg |-> neg, mag |-> mag]

\* n * 2^pw as a decimal
BinDec(n, pw) ==
    IF pw >= 0 THEN Dec(BigPow(BigOfNat(n), 2, pw), 0)
    ELSE Dec(BigPow(BigOfNat(n), 5, 0 - pw), 0 - pw)

\* the number a float32 is
F32Num(v) == Num(v.neg, BinDec(v.num, v.pw))

IsZero(x) == BigNorm(x.mag.ds) = <<>>

\* x between lo and hi, or on one of them when the significand is even
Between(cmpLo, cmpHi, even) ==
    (cmpLo > 0 /\ cmpHi < 0) \/ (even /\ cmpLo >= 0 /\ cmpHi <= 0)

\* toFloat32(x) === v: x lies between the midpoints to the neighbours of v
\* (in quarters of the last place: the float below a power of two is half
\* as far away), a tie going to the even significand.  A number so close
\* to a midpoint that the double nearest to it is the midpoint is not part
\* of the domain.
ToFloat32Is(x, v) ==
    IF v.num = 0 THEN DecCmp(x.mag, BinDec(1, -150)) <= 0
    ELSE /\ x.neg = v.neg
         /\ Between(DecCmp(x.mag,
                           BinDec(4 * v.num - (IF v.num = 8388608 /\ v.pw > -149
                                               THEN 1 ELSE 2), v.pw - 2)),
                    DecCmp(x.mag, BinDec(4 * v.num + 2, v.pw - 2)),
                    v.num % 2 = 0)

\* the characters of a natural number, "0" for zero
BigText(ds) ==
    IF ds = <<>> THEN <<"0">>
    ELSE [i \in 1..Len(ds) |-> Digits[ds[Len(ds) + 1 - i] + 1]]

\* the natural number a sequence of digit characters is
TextBig(cs) == BigNorm([i \in 1..Len(cs) |-> DigitVal(cs[Len(cs) + 1 - i])])

\* the longest prefix of digits
RECURSIVE DigitRun(_)
DigitRun(cs) ==
    IF cs = <<>> \/ ~IsDigit(cs[1]) THEN <<>> ELSE <<cs[1]>> \o DigitRun(Tail(cs))

\* parseFloat of an unsigned text: digits, a fraction, an exponent
ParseExp(ds, sc, rest) ==
    IF rest # <<>> /\ rest[1] \in {"e", "E"}
    THEN IF Len(rest) >= 2 /\ rest[2] = "-" /\ DigitRun(SubSeq(rest, 3, Len(rest))) # <<>>
         THEN Dec(ds, sc + StrToNat(DigitRun(SubSeq(rest, 3, Len(rest)))))
         ELSE IF Len(rest) >= 2 /\ rest[2] = "+"
                 /\ DigitRun(SubSeq(rest, 3, Len(rest))) # <<>>
         THEN DecScale(Dec(ds, sc), StrToNat(DigitRun(SubSeq(rest, 3, Len(rest)))))
         ELSE IF DigitRun(Tail(rest)) # <<>>
         THEN DecScale(Dec(ds, sc), StrToNat(DigitRun(Tail(rest))))
         ELSE Dec(ds, sc)
    ELSE Dec(ds, sc)

ParseFraction(int, rest) ==
    IF rest # <<>> /\ rest[1] = "."
    THEN ParseExp(TextBig(int \o DigitRun(Tail(rest))), Len(DigitRun(Tail(rest))),
                  SubSeq(rest, 2 + Len(DigitRun(Tail(rest))), Len(rest)))
    ELSE ParseExp(TextBig(int), 0, rest)

ParseUnsigned(cs) == ParseFraction(DigitRun(cs), SubSeq(cs, Len(DigitRun(cs)) + 1, Len(cs)))

\* parseFloat(s) of a text that begins with a number
parseFloat(cs) ==
    IF cs # <<>> /\ cs[1] = "-" THEN Num(TRUE, ParseUnsigned(Tail(cs)))
    ELSE Num(FALSE, ParseUnsigned(cs))

\* the integer nearest to a decimal, the larger one of two
RoundUp(x) == IF DecHalf(x) >= 0 THEN BigAdd(DecFloor(x), <<1>>, 0) ELSE DecFloor(x)

\* x * 10^k for an integer k
DecMove(x, k) == IF k >= 0 THEN DecScale(x, k) ELSE Dec(x.ds, x.sc - k)

\* the digits of n with a point before the last d of them
PointText(text, d) ==
    IF d = 0 THEN text
    ELSE SubSeq(text, 1, Len(text) - d) \o <<".">> \o SubSeq(text, Len(text) - d + 1, Len(text))

PadText(text, len) == [i \in 1..(len - Len(text)) |-> "0"] \o text

\* Number.prototype.toFixed(d)
toFixed(x, d) ==
    (IF x.neg /\ ~IsZero(x) THEN <<"-">> ELSE <<>>)
    \o PointText(PadText(BigText(RoundUp(DecScale(x.mag, d))), d + 1), d)

\* the text of n * 10^(e - d), n of d + 1 digits, as toExponential writes it
ExpText(neg, n, e, d) ==
    (IF neg THEN <<"-">> ELSE <<>>)
    \o PointText(BigText(n), d)
    \o <<"e", IF e < 0 THEN "-" ELSE "+">> \o NatToStr(IF e < 0 THEN 0 - e ELSE e)

ExpRounded(neg, n, e0, d) ==
    IF Len(n) = d + 2 THEN ExpText(neg, Tail(n), e0 + 1, d) ELSE ExpText(neg, n, e0, d)

ExpAt(x, e0, d) == ExpRounded(x.neg, RoundUp(DecMove(x.mag, d - e0)), e0, d)

\* Number.prototype.toExponential(d) of a number that is not zero
toExponential(x, d) == ExpAt(x, Len(BigNorm(x.mag.ds)) - 1 - x.mag.sc, d)

\* s.replace(a, b) for characters: the first a becomes b
ReplaceChar(cs, a, b) ==
    IF IndexOf(cs, a) < 0 THEN cs
    ELSE [i \in 1..Len(cs) |-> IF i = IndexOf(cs, a) + 1 THEN b ELSE cs[i]]

\* fmt of formatFloatScientific: E for e, and the exponent of at least two
\* digits behind its sign
PadExponent(cs, at) ==
    IF at < 0 \/ at + 2 > Len(cs) \/ cs[at + 2] \notin {"+", "-"}
       \/ Len(cs) < at + 3 \/ \E i \in (at + 3)..Len(cs) : ~IsDigit(cs[i])
    THEN cs
    ELSE SubSeq(cs, 1, at + 2) \o PadText(SubSeq(cs, at + 3, Len(cs)), 2)

fmt(x, digits) ==
    PadExponent(ReplaceChar(toExponential(x, digits), "e", "E"),
                IndexOf(ReplaceChar(toExponential(x, digits), "e", "E"), "E"))

\* formatFloatScientific(v), n the number v is: the first d of the loop
\* over 5..8 whose text parses back to v, else six digits
ScientificOk(n, v, d) == ToFloat32Is(parseFloat(ReplaceChar(fmt(n, d), "E", "e")), v)

formatFloatScientific(n, v) ==
    IF \E d \in 5..8 : ScientificOk(n, v, d)
    THEN fmt(n, CHOOSE d \in 5..8 :
                    ScientificOk(n, v, d) /\ \A e \in 5..(d - 1) : ~ScientificOk(n, v, e))
    ELSE fmt(n, 6)

\* Math.round: the nearest integer, the one towards +Infinity of two; the
\* result keeps the sign, so that it is -0 for -0.5 <= n < 0
MathRound(n) ==
    [neg |-> n.neg,
     ds |-> IF DecHalf(n.mag) > 0 \/ (DecHalf(n.mag) = 0 /\ ~n.neg)
            THEN BigAdd(DecFloor(n.mag), <<1>>, 0) ELSE DecFloor(n.mag)]

\* roundHalfToEven(n): r = Math.round(n); when |n - r| is 0.5, r if it is
\* even, else r - 1 for n > 0 and r + 1 for the others
roundHalfToEven(n) ==
    IF DecHalf(n.mag) # 0 \/ ~IsOdd(MathRound(n).ds) THEN MathRound(n)
    ELSE [neg |-> n.neg /\ BigDiff(MathRound(n).ds, <<1>>) # <<>>,
          ds |-> BigDiff(MathRound(n).ds, <<1>>)]

\* String(r) of an integer r
IntText(r) == (IF r.neg /\ r.ds # <<>> THEN <<"-">> ELSE <<>>) \o BigText(r.ds)

\* s.replace(/0+$/, "").replace(/\.$/, "")
RECURSIVE StripZeros(_)
StripZeros(cs) ==
    IF cs # <<>> /\ cs[Len(cs)] = "0" THEN StripZeros(SubSeq(cs, 1, Len(cs) - 1)) ELSE cs

StripPoint(cs) ==
    IF cs # <<>> /\ cs[Len(cs)] = "." THEN SubSeq(cs, 1, Len(cs) - 1) ELSE cs

Trimmed(cs) == StripPoint(StripZeros(cs))

\* MIN_NORMAL_F32 = 1.175494e-38, 1e-4 and 1e15; no float32 lies between
\* one of these decimals and the double that stands for it
MIN_NORMAL_F32 == Dec(<<4, 9, 4, 5, 7, 1, 1>>, 44)
SmallestFixed == Dec(<<1>>, 4)
SmallestLarge == Dec(BigShift(<<1>>, 15), 0)

\* rounded / Math.pow(10, d)
Quotient(r, d) == Num(r.neg, Dec(r.ds, d))

\* the text formatFloat tries for d fractional digits; the product and the
\* quotient are exact as long as v * 10^d is below 2^53
FixedText(n, d) ==
    IF d = 0 THEN IntText(roundHalfToEven(n))
    ELSE Trimmed(toFixed(Quotient(roundHalfToEven(Num(n.neg, DecScale(n.mag, d))), d), d))

\* the test of the loop over d = 0..15 of formatFloat
FixedOk(n, v, d) ==
    /\ FixedText(n, d) \notin {<<>>, <<"-">>}
    /\ ToFloat32Is(parseFloat(FixedText(n, d)), v)

\* the first text of the loop that parses back to v, else six digits
FixedFrom(n, v) ==
    IF \E d \in 0..15 : FixedOk(n, v, d)
    THEN FixedText(n, CHOOSE d \in 0..15 :
                          FixedOk(n, v, d) /\ \A e \in 0..(d - 1) : ~FixedOk(n, v, e))
    ELSE FixedText(n, 6)

\* formatFloat(n) from "if (v === 0)" on, v = toFloat32(n)
FormatFloat32(n, v) ==
    IF v.num = 0 THEN <<"0">>
    ELSE IF DecCmp(n.mag, MIN_NORMAL_F32) < 0
    THEN IF v.neg THEN <<"-", "0">> ELSE <<"0">>
    ELSE IF DecCmp(n.mag, SmallestFixed) < 0 \/ DecCmp(n.mag, SmallestLarge) >= 0
    THEN formatFloatScientific(n, v)
    ELSE FixedFrom(n, v)

\* formatFloat(n) of the current writer for a number that is a float32, so
\* that toFloat32(n) is n
formatFloat(v) == FormatFloat32(F32Num(v), v)

\* |a - b|
Distance(a, b) ==
    IF a.neg = b.neg THEN DecDiff(a.mag, b.mag)
    ELSE Dec(BigAdd(DecAt(a.mag, Max(a.mag.sc, b.mag.sc)),
                    DecAt(b.mag, Max(a.mag.sc, b.mag.sc)), 0),
             Max(a.mag.sc, b.mag.sc))

\* formatFloat(n) of src/lsx/lsx-writer.ts: five fractional digits when
\* that is within 4e-6 of n, else six
formatFloatOld(n) ==
    IF DecCmp(Distance(parseFloat(Trimmed(toFixed(n, 5))), n), Dec(<<4>>, 6)) < 0
    THEN Trimmed(toFixed(n, 5))
    ELSE Trimmed(toFixed(n, 6))

-----------------------------------------------------------------------------
(* Float attributes: a float32 is formatted by one of the two writers.     *)

\* significand and exponent of the sample values: zero, subnormals, the
\* smallest normal value, values around 1e-4 and 1e15, and others
FloatMagnitudes ==
    {<<0, -149>>, <<1, -149>>, <<4194304, -149>>, <<8388605, -149>>,
     <<8388606, -149>>, <<8388607, -149>>, <<8388608, -149>>,
     <<13421773, -27>>, <<15920884, -42>>, <<8388608, -23>>, <<8388608, -24>>,
     <<10995116, -40>>, <<14901161, 26>>, <<9313226, 30>>, <<8388608, 37>>,
     <<14680064, -22>>, <<13743895, -37>>, <<13743896, -37>>, <<10066330, -25>>,
     <<13107200, -17>>, <<16181625, -17>>, <<10485760, -22>>, <<8388608, -26>>,
     <<8388609, -1>>, <<8388608, 1>>, <<8388608, -37>>}

Floats == {F32(neg, m[1], m[2]) : neg \in BOOLEAN, m \in FloatMagnitudes}

InitFloat ==
    /\ callIn \in {[fn |-> "formatFloat", v |-> v] : v \in Floats}
    /\ callOut = None
    /\ IdleCodec /\ IdleLsx /\ IdleLsv

\* formatFloat(v) of the current writer
FormatFloat ==
    /\ callIn.fn = "formatFloat" /\ callOut = None
    /\ callOut' = [rev |-> "part_001", text |-> formatFloat(callIn.v)]
    /\ UNCHANGED callIn
    /\ UNCHANGED <<codecVars, lsxVars, lsvVars>>

\* formatFloat(v) of src/lsx/lsx-writer.ts
FormatFloatOld ==
    /\ callIn.fn = "formatFloat" /\ callOut = None
    /\ callOut' = [rev |-> "lsx-writer.ts", text |-> formatFloatOld(F32Num(callIn.v))]
    /\ UNCHANGED callIn
    /\ UNCHANGED <<codecVars, lsxVars, lsvVars>>

NextFloat ==
    \/ FormatFloat
    \/ FormatFloatOld

SpecFloat == InitFloat /\ [][NextFloat]_vars

\* the text without its sign
Unsigned(cs) == IF cs # <<>> /\ cs[1] = "-" THEN Tail(cs) ELSE cs

AllDigits(cs) == cs # <<>> /\ \A i \in 1..Len(cs) : IsDigit(cs[i])

\* the number of digits behind the point of a text in fixed notation
FractionDigits(u) == IF IndexOf(u, ".") < 0 THEN 0 ELSE Len(u) - IndexOf(u, ".") - 1

\* digits, and behind a point at most fifteen more
IsFixedNotation(u) ==
    IF IndexOf(u, ".") < 0 THEN AllDigits(u)
    ELSE /\ AllDigits(SubSeq(u, 1, IndexOf(u, ".")))
         /\ AllDigits(SubSeq(u, IndexOf(u, ".") + 2, Len(u)))
         /\ FractionDigits(u) <= 15

\* the number of digits between the point and the E
MantissaDigits(u) == IndexOf(u, "E") - 2

\* one digit, a point, five to eight digits, E, a sign, two digits or more
IsScientificNotation(u) ==
    /\ IndexOf(u, "E") >= 0
    /\ MantissaDigits(u) \in 5..8
    /\ IsDigit(u[1]) /\ u[2] = "."
    /\ AllDigits(SubSeq(u, 3, IndexOf(u, "E")))
    /\ Len(u) >= IndexOf(u, "E") + 4
    /\ u[IndexOf(u, "E") + 2] \in {"+", "-"}
    /\ AllDigits(SubSeq(u, IndexOf(u, "E") + 3, Len(u)))

\* 1e-4 <= |n| < 1e15
InFixedRange(n) == DecCmp(n.mag, SmallestFixed) >= 0 /\ DecCmp(n.mag, SmallestLarge) < 0

\* the text is the shortest of its notation that parses back to v
ShortestFor(n, v, u) ==
    IF InFixedRange(n)
    THEN /\ IsFixedNotation(u)
         /\ \A d \in 0..(FractionDigits(u) - 1) : ~FixedOk(n, v, d)
    ELSE /\ IsScientificNotation(u)
         /\ \A d \in 5..(MantissaDigits(u) - 1) : ~ScientificOk(n, v, d)

OneTenth == F32(FALSE, 13421773, -27)

SmallNegative == F32(TRUE, 15920884, -42)

FloatTextOk(v, text) ==
    /\ ToFloat32Is(parseFloat(text), v)
    /\ v.num # 0 => ShortestFor(F32Num(v), v, Unsigned(text))
    /\ v = OneTenth => text = <<"0", ".", "1">>
    /\ v = SmallNegative
          => text = <<"-", "3", ".", "6", "1", "9", "9", "9", "E", "-", "0", "6">>

\* C11: the text a writer emits for a finite float32 v parses back to v as a
\* float32 and is the shortest such form: fixed notation with the fewest
\* fractional digits (at most 15) for 1e-4 <= |v| < 1e15, else scientific
\* notation with 5..8 mantissa digits, E, a sign and two exponent digits or
\* more; 0.1 is written 0.1 and -3.61999E-06 is written -3.61999E-06.
C11_FloatTextShortestRoundTrip ==
    (callOut # None /\ callIn.fn = "formatFloat") => FloatTextOk(callIn.v, callOut.text)

-----------------------------------------------------------------------------
(* Packing a directory that holds hidden files and a __manifest__.json.    *)

ScanFileNames == <<<<"b">>, <<"a">>, <<".", "h">>, <<"s", "/", ".", "k">>>>

\* the files of a directory other than the manifest, in the order of the
\* directory listing
ScanFileSets ==
    {SelectSeq([i \in 1..Len(ScanFileNames) |->
                   [name |-> ScanFileNames[i], content |-> Content(i, 3)]],
               LAMBDA f : f.name \in names) :
        names \in SUBSET {ScanFileNames[i] : i \in 1..Len(ScanFileNames)}}

ManifestFile == [name |-> MANIFEST_NAME, content |-> Content(9, 5)]

\* the __manifest__.json of a directory: none, one without files, one that
\* lists the files backwards with their flags, one that lists them without
\* flags and itself after them
ScanManifests(files) ==
    {<<>>,
     <<[files |-> <<>>, flags |-> <<>>, priority |-> <<>>]>>,
     <<[files |-> [i \in 1..Len(files) |-> [name |-> files[i].name]]
                  \o <<[name |-> MANIFEST_NAME]>>,
        flags |-> <<1>>, priority |-> <<2>>]>>}
    \cup {<<[files |-> [i \in 1..Len(files) |->
                          [name |-> files[Len(files) + 1 - i].name, flags |-> f]],
             flags |-> <<>>, priority |-> <<>>]>> : f \in {0, 2}}

ScanDir(files, m) ==
    [files |-> IF m = <<>> THEN files ELSE files \o <<ManifestFile>>,
     manifest |-> m, lsvManifest |-> <<>>]

ScanDirs ==
    UNION {{ScanDir(files, m) : m \in ScanManifests(files)} : files \in ScanFileSets}

InitPack ==
    /\ callIn \in {[fn |-> "packLsv", dir |-> d, pkgVersion |-> v] :
                      d \in ScanDirs, v \in PackageVersions}
    /\ callOut = None
    /\ IdleCodec /\ IdleLsx /\ IdleLsv

\* packLsv(inputDir, outputPath, { version })
PackDirectory ==
    /\ callIn.fn = "packLsv" /\ callOut = None
    /\ callOut' = [rev |-> "part_005", file |-> packLsv(callIn.dir, callIn.pkgVersion)]
    /\ UNCHANGED callIn
    /\ UNCHANGED <<codecVars, lsxVars, lsvVars>>

NextPack ==
    \/ PackDirectory

SpecPack == InitPack /\ [][NextPack]_vars

\* the file list of a package as it was before its compression
WrittenList(pkg) ==
    decompress(pkg.fileList, pkg.numFiles * FILE_ENTRY_15_SIZE, COMPRESSION_LZ4)

\* the names of the entries of the written file list, in their order
WrittenNames(pkg) ==
    [i \in 1..Len(WrittenList(pkg).entries) |->
        nullTerminatedString(WrittenList(pkg), (i - 1) * WrittenList(pkg).entrySize)]

ListsFiles(dir) == dir.manifest # <<>> /\ Len(dir.manifest[1].files) > 0

\* the names __manifest__.json lists, without its own
ListedEntries(dir) == SelectSeq(dir.manifest[1].files, LAMBDA f : f.name # MANIFEST_NAME)

\* the order the claim asks for: that of the manifest, else strictly
\* ascending over exactly the files that are neither hidden nor the manifest
InAskedOrder(dir, names) ==
    IF ListsFiles(dir)
    THEN names = [i \in 1..Len(ListedEntries(dir)) |-> ListedEntries(dir)[i].name]
    ELSE /\ {names[i] : i \in 1..Len(names)}
              = {n \in FileNames(dir) : n # MANIFEST_NAME /\ ~IsHidden(n)}
         /\ \A i \in 1..(Len(names) - 1) : NameLess(names[i], names[i + 1])

\* the flags the claim asks for the file called name
AskedFlags(dir, name) ==
    IF ListsFiles(dir)
          /\ \E i \in 1..Len(ListedEntries(dir)) :
                ListedEntries(dir)[i].name = name /\ "flags" \in DOMAIN ListedEntries(dir)[i]
    THEN ListedEntries(dir)[CHOOSE i \in 1..Len(ListedEntries(dir)) :
                               ListedEntries(dir)[i].name = name].flags
    ELSE DEFAULT_LSV_FLAGS

\* the payloads are the files of names, in their order, each stored or
\* compressed as its flags say
PackedWithFlags(dir, names, payloads) ==
    /\ Len(payloads) = Len(names)
    /\ \A i \in 1..Len(names) :
          payloads[i].payload
             = IF AskedFlags(dir, names[i]) = 0 THEN readFileSync(dir, names[i])
               ELSE compress(readFileSync(dir, names[i]), AskedFlags(dir, names[i]))

C13_PackNeedsLsvManifest ==
    (lsvPkg # None /\ lsvPkg.rev \in {"packer.ts", "part_005"}
        /\ lsvDir.lsvManifest = <<>>) => IsErr(lsvPkg.file)

-----------------------------------------------------------------------------
(* Compression: a buffer is compressed and its output decompressed, or the *)
(* buffer itself is given to decompress.                                   *)

MaxData == 2

DataBytes == {0, 255}

Buffers == UNION {{Raw(b) : b \in [1..n -> DataBytes]} : n \in 0..MaxData}

\* CompressionFlags.FastCompress, DefaultCompress, MaxCompress and none
LevelBits == {0, 16, 32, 64}

MethodBits == {0, 1, 2, 3, 4, 7, 15}

FlagValues == {m + l : m \in MethodBits, l \in LevelBits}

InitCompress ==
    /\ callIn \in {[fn |-> "compress", data |-> d, flags |-> f] :
                      d \in Buffers, f \in FlagValues}
    /\ callOut = None
    /\ IdleCodec /\ IdleLsx /\ IdleLsv

\* compress(data, flags)
Compress ==
    /\ callIn.fn = "compress" /\ callOut = None
    /\ callOut' = [step |-> "compressed", out |-> compress(callIn.data, callIn.flags)]
    /\ UNCHANGED callIn
    /\ UNCHANGED <<codecVars, lsxVars, lsvVars>>

\* decompress(compressed, data.length, flags) of what compress returned
Decompress ==
    /\ callIn.fn = "compress" /\ callOut # None
    /\ callOut.step = "compressed" /\ ~IsErr(callOut.out)
    /\ callOut' = [step |-> "decompressed", out |-> callOut.out,
                   back |-> decompress(callOut.out, Size(callIn.data), callIn.flags)]
    /\ UNCHANGED callIn
    /\ UNCHANGED <<codecVars, lsxVars, lsvVars>>

\* decompress(data, data.length, flags) of a buffer nobody compressed
DecompressBuffer ==
    /\ callIn.fn = "compress" /\ callOut = None
    /\ callOut' = [step |-> "decoded",
                   out |-> decompress(callIn.data, Size(callIn.data), callIn.flags)]
    /\ UNCHANGED callIn
    /\ UNCHANGED <<codecVars, lsxVars, lsvVars>>

NextCompress ==
    \/ Compress
    \/ Decompress
    \/ DecompressBuffer

SpecCompress == InitCompress /\ [][NextCompress]_vars

LowNibble(flags) == flags % 16

RaisesUnsupported(r) == IsErr(r) /\ r.err = "Unknown compression method"

-----------------------------------------------------------------------------
(* The string table of one name.                                           *)

MaxName == 6

NameChars == {"a", "z"}

HashNames == UNION {[1..n -> NameChars] : n \in 0..MaxName}

InitHash ==
    /\ callIn \in {[fn |-> "hashToBucket", s |-> s] : s \in HashNames}
    /\ callOut = None
    /\ IdleCodec /\ IdleLsx /\ IdleLsv

\* hashToBucket(dotNetStringHashCode(s))
HashToBucket ==
    /\ callIn.fn = "hashToBucket" /\ callOut = None
    /\ callOut' = [step |-> "bucket", hash |-> dotNetStringHashCode(callIn.s),
                   bucket |-> hashToBucket(dotNetStringHashCode(callIn.s))]
    /\ UNCHANGED callIn
    /\ UNCHANGED <<codecVars, lsxVars, lsvVars>>

\* buildStringTable([s])
BuildStringTable ==
    /\ callIn.fn = "hashToBucket" /\ callOut = None
    /\ callOut' = [step |-> "table", table |-> buildStringTable(<<callIn.s>>)]
    /\ UNCHANGED callIn
    /\ UNCHANGED <<codecVars, lsxVars, lsvVars>>

\* buildStringTable(new Set([s])) of the earlier writer
BuildStringTableOld ==
    /\ callIn.fn = "hashToBucket" /\ callOut = None
    /\ callOut' = [step |-> "table", table |-> buildStringTableOld(<<callIn.s>>)]
    /\ UNCHANGED callIn
    /\ UNCHANGED <<codecVars, lsxVars, lsvVars>>

NextHash ==
    \/ HashToBucket
    \/ BuildStringTable
    \/ BuildStringTableOld

SpecHash == InitHash /\ [][NextHash]_vars

\* (h ^ (h >>> 9) ^ (h >>> 18) ^ (h >>> 27)) & 0x1FF of the unsigned h
UnsignedBucket(h) ==
    BitXor(BitXor(h[2] % 512, (h[2] \div 512) + 128 * (h[1] % 4), 9),
           BitXor((h[1] \div 4) % 512, h[1] \div 2048, 9), 9)

\* C15: the writer puts a string into the bucket
\* (h ^ (h>>9) ^ (h>>18) ^ (h>>27)) & 0x1FF of its unsigned 32-bit hash h,
\* hash = hash*31 + charCode; the bucket is in 0..511 and the string table
\* declares 512 buckets.
C15_BucketOfUnsignedHash ==
    (callOut # None /\ callIn.fn = "hashToBucket") =>
        IF callOut.step = "bucket"
        THEN /\ callOut.bucket \in 0..511
             /\ callOut.bucket = UnsignedBucket(callOut.hash)
        ELSE /\ callOut.table.numBuckets = 512
             /\ DOMAIN callOut.table.chains
                   = {UnsignedBucket(dotNetStringHashCode(callIn.s))}

-----------------------------------------------------------------------------
(* The type attribute: a type is written by the LSX writer and the text    *)
(* parsed by the reader, or a text that no writer wrote is parsed.         *)

TypeTags == 0..33

\* texts that are neither the number nor the name of a type
OtherTypeTexts ==
    {<<>>, <<"x">>, <<"3", "4">>, <<"-", "1">>, <<"i", "n", "t">>,
     <<"U", "n", "k", "n", "o", "w", "n">>}

InitType ==
    /\ callIn \in {[fn |-> "parseType", type |-> t, numericTypes |-> b] :
                      t \in TypeTags, b \in BOOLEAN}
                  \cup {[fn |-> "parseType", typeStr |-> s] : s \in OtherTypeTexts}
    /\ callOut = None
    /\ IdleCodec /\ IdleLsx /\ IdleLsv

\* the type attribute serializeAttribute writes
WriteType ==
    /\ callIn.fn = "parseType" /\ "type" \in DOMAIN callIn /\ callOut = None
    /\ callOut' = [step |-> "written",
                   typeStr |-> TypeStr(callIn.type, [numericTypes |-> callIn.numericTypes])]
    /\ UNCHANGED callIn
    /\ UNCHANGED <<codecVars, lsxVars, lsvVars>>

\* parseType of the text that was written
ParseWrittenType ==
    /\ callIn.fn = "parseType" /\ callOut # None /\ callOut.step = "written"
    /\ callOut' = [step |-> "parsed", typeStr |-> callOut.typeStr,
                   type |-> parseType(callOut.typeStr)]
    /\ UNCHANGED callIn
    /\ UNCHANGED <<codecVars, lsxVars, lsvVars>>

\* parseType of another text
ParseTypeText ==
    /\ callIn.fn = "parseType" /\ "typeStr" \in DOMAIN callIn /\ callOut = None
    /\ callOut' = [step |-> "parsed", typeStr |-> callIn.typeStr,
                   type |-> parseType(callIn.typeStr)]
    /\ UNCHANGED callIn
    /\ UNCHANGED <<codecVars, lsxVars, lsvVars>>

NextType ==
    \/ WriteType
    \/ ParseWrittenType
    \/ ParseTypeText

SpecType == InitType /\ [][NextType]_vars

\* the text is the decimal string or the enum name of t
IsTextOfType(text, t) == text = IntToStr(t) \/ text = NodeAttributeTypeName[t + 1]

\* C16: the reader maps the decimal string and the enum name of every type
\* t in 0..33 to t, so that what the writer emits for t is parsed back as t;
\* any other text is parsed as String (20).
C16_TypeTextParsedBack ==
    (callOut # None /\ callIn.fn = "parseType" /\ callOut.step = "parsed") =>
        /\ \A t \in TypeTags : IsTextOfType(callOut.typeStr, t) => callOut.type = t
        /\ "type" \in DOMAIN callIn => callOut.type = callIn.type
        /\ (\A t \in TypeTags : ~IsTextOfType(callOut.typeStr, t)) => callOut.type = T_String

-----------------------------------------------------------------------------
(* One region of an LSX file: the file holds a region with an id and,      *)
(* under it, an outer node of any name; parseLsx reads it.                 *)

RegionNames == {<<"R">>, <<"A">>}

RegionAttrs == {<<>>, <<Attribute(<<"x">>, T_FixedString, StrV(<<"v">>))>>}

\* the nodes under the outer node
InnerNodes == {Node(n, a, <<>>) : n \in RegionNames, a \in RegionAttrs}

OuterNodes ==
    {Node(n, a, c) : n \in RegionNames, a \in RegionAttrs,
                     c \in {<<>>} \cup {<<x>> : x \in InnerNodes}
                          \cup {<<x, y>> : x \in InnerNodes, y \in InnerNodes}}

\* the tags of an LSX file with one region
LsxFile(regionId, node) ==
    <<OpenTag("save", <<>>),
      EmptyTag("version",
        << <<"major", <<"4">>>>, <<"minor", <<"0">>>>,
           <<"revision", <<"0">>>>, <<"build", <<"0">>>> >>),
      OpenTag("region", << <<"id", escapeXml(regionId)>> >>)>>
    \o serializeNode(node, [numericTypes |-> FALSE, lslibMeta |-> LslibMeta])
    \o <<CloseTag("region"), CloseTag("save")>>

InitRegion ==
    /\ callIn \in {[fn |-> "parseLsx", regionId |-> r, node |-> n] :
                      r \in RegionNames, n \in OuterNodes}
    /\ callOut = None
    /\ IdleCodec /\ IdleLsx /\ IdleLsv

\* parseLsx(xml) of the file
ParseLsxFile ==
    /\ callIn.fn = "parseLsx" /\ callOut = None
    /\ callOut' = parseLsx(LsxFile(callIn.regionId, callIn.node))
    /\ UNCHANGED callIn
    /\ UNCHANGED <<codecVars, lsxVars, lsvVars>>

NextRegion == ParseLsxFile

SpecRegion == InitRegion /\ [][NextRegion]_vars

\* the outer node has no attributes and one child, named as the region
OnlyChildNamedAsRegion(regionId, outer) ==
    /\ Len(outer.attributes) = 0
    /\ Len(outer.children) = 1
    /\ outer.children[1].name = regionId

\* C17: parseLsx replaces the outer node of a region by its only child
\* exactly when the outer node has no attributes and exactly one child whose
\* name is the region id; in every other case the outer node is kept as it
\* is.
C17_OuterNodeReplacedByChildOfRegionName ==
    (callOut # None /\ callIn.fn = "parseLsx") =>
        /\ ~IsErr(callOut)
        /\ callOut.root.children =
              IF OnlyChildNamedAsRegion(callIn.regionId, callIn.node)
              THEN <<callIn.node.children[1]>>
              ELSE <<callIn.node>>

-----------------------------------------------------------------------------
(* Regions and roots: a tree of k regions is written by writeLsf and the   *)
(* file is read by LSFReader.read.                                         *)

\* the most regions of one tree
MaxRegions == 3

\* region nodes; the third is a region that is itself named save
RegionNodes ==
    {Node(NameR, <<IntAttr(1)>>, <<>>),
     Node(NameN, <<>>, <<Node(NameR, <<IntAttr(2)>>, <<>>)>>),
     Node(SaveName, <<IntAttr(3)>>, <<Node(NameN, <<IntAttr(4)>>, <<>>)>>)}

RegionLists ==
    UNION {[1..k -> RegionNodes] : k \in 1..MaxRegions}

\* the tree of a list of regions: the region itself, or the regions under
\* the virtual root
TreeOfRegions(regions) ==
    IF Len(regions) = 1 THEN regions[1] ELSE Node(SaveName, <<>>, regions)

InitRoots ==
    /\ callIn \in {[fn |-> "writeLsf", regions |-> r, version |-> v, options |-> o] :
                      r \in RegionLists, v \in Versions, o \in MetadataFormats}
    /\ callOut = None
    /\ IdleCodec /\ IdleLsx /\ IdleLsv

\* writeLsf(root, path, version, options)
WriteRegionTree ==
    /\ callIn.fn = "writeLsf" /\ callOut = None
    /\ callOut' = [step |-> "written",
                   file |-> writeLsf(TreeOfRegions(callIn.regions), callIn.version,
                                     callIn.options)]
    /\ UNCHANGED callIn
    /\ UNCHANGED <<codecVars, lsxVars, lsvVars>>

\* new LSFReader(path).read()
ReadRegionTree ==
    /\ callIn.fn = "writeLsf" /\ callOut # None /\ callOut.step = "written"
    /\ callOut' = [step |-> "read", file |-> callOut.file, root |-> LSFRead(callOut.file)]
    /\ UNCHANGED callIn
    /\ UNCHANGED <<codecVars, lsxVars, lsvVars>>

NextRoots ==
    \/ WriteRegionTree
    \/ ReadRegionTree

SpecRoots == InitRoots /\ [][NextRoots]_vars

\* the node table of a file
NodeTable(file) ==
    parseNodes(decompressBlock(file.meta.nodes, file.blocks.nodes), file.meta.metadataFormat)

\* the entries of a node table that have no parent
RootEntries(entries) == SelectSeq(entries, LAMBDA e : e.parentIndex = -1)

\* a tree without its attributes and keys
RECURSIVE Shape(_)
Shape(node) ==
    [name |-> node.name, children |-> [i \in 1..Len(node.children) |-> Shape(node.children[i])]]

\* C18: a tree of k >= 1 regions is written with exactly k nodes of parent
\* index -1, and the reader returns the region itself when there is one and
\* otherwise the regions, in order, under a node named save; the virtual
\* root is never written and a region is never taken for it.
C18_RegionsAreTheRoots ==
    (callOut # None /\ callIn.fn = "writeLsf") =>
        /\ ~IsErr(NodeTable(callOut.file))
        /\ Len(RootEntries(NodeTable(callOut.file).entries)) = Len(callIn.regions)
        /\ callOut.step = "read" =>
              /\ ~IsErr(callOut.root)
              /\ Shape(callOut.root) = Shape(TreeOfRegions(callIn.regions))

-----------------------------------------------------------------------------
(* The typeAndLength word of an attribute entry: written by writeLsf and   *)
(* parsed by the reader, or found in a file of another writer and parsed.  *)
(* A word is held as the signed integer of the same 32 bits.               *)

\* the longest value the 26 bits of the length hold
MaxLength == 67108863

Lengths == {0, 1, 63, 64, 65535, 33554431, 33554432, MaxLength}

InitTypeLength ==
    /\ callIn \in {[fn |-> "typeAndLength", type |-> t, length |-> l] :
                      t \in TypeTags, l \in Lengths}
    /\ callOut = None
    /\ IdleCodec /\ IdleLsx /\ IdleLsv

\* writeLsf: the word of the entry
WriteTypeAndLength ==
    /\ callIn.fn = "typeAndLength" /\ callOut = None
    /\ callOut' = [step |-> "written",
                   entry |-> writeUInt32LE(TypeAndLength(callIn.type, callIn.length))]
    /\ UNCHANGED callIn
    /\ UNCHANGED <<codecVars, lsxVars, lsvVars>>

\* parseAttributes of the word that was written
ParseTypeAndLength ==
    /\ callIn.fn = "typeAndLength" /\ callOut # None /\ callOut.step = "written"
    /\ ~IsErr(callOut.entry)
    /\ callOut' = [step |-> "parsed", by |-> "writeLsf",
                   type |-> callOut.entry.word % 64,
                   length |-> ShiftRight6(callOut.entry.word)]
    /\ UNCHANGED callIn
    /\ UNCHANGED <<codecVars, lsxVars, lsvVars>>

\* parseAttributes of a file that holds the unsigned word t | (L << 6)
ParseStoredTypeAndLength ==
    /\ callIn.fn = "typeAndLength" /\ callOut = None
    /\ callOut' = [step |-> "parsed", by |-> "other",
                   type |-> TypeAndLength(callIn.type, callIn.length) % 64,
                   length |-> ShiftRight6(TypeAndLength(callIn.type, callIn.length))]
    /\ UNCHANGED callIn
    /\ UNCHANGED <<codecVars, lsxVars, lsvVars>>

NextTypeLength ==
    \/ WriteTypeAndLength
    \/ ParseTypeAndLength
    \/ ParseStoredTypeAndLength

SpecTypeLength == InitTypeLength /\ [][NextTypeLength]_vars

\* C19: for every type t in 0..33 and every length L in 0..2^26-1 the writer
\* stores the word t | (L << 6), and the reader decodes the same t and the
\* same, non-negative, L from it.
C19_TypeAndLengthDecoded ==
    (callOut # None /\ callIn.fn = "typeAndLength") =>
        /\ callOut.step = "written" => ~IsErr(callOut.entry)
        /\ callOut.step = "parsed" =>
              /\ callOut.type = callIn.type
              /\ callOut.length >= 0
              /\ callOut.length = callIn.length

-----------------------------------------------------------------------------
(* Value offsets: a tree of two nodes is written by writeLsf, and the      *)
(* reader parses the attribute table and decodes the values.               *)

\* attributes whose values take 0, 4 and 3 bytes
OffsetAttrs ==
    {Attribute(<<"z">>, T_None, StrV(<<>>)),
     Attribute(<<"i">>, T_Int, NumV(5)),
     Attribute(<<"s">>, T_String, StrV(<<"a", "b">>))}

\* the attribute objects of one node
OffsetObjs ==
    {<<>>} \cup {<<a>> : a \in OffsetAttrs}
    \cup {p \in OffsetAttrs \X OffsetAttrs : p[1] # p[2]}

InitOffsets ==
    /\ callIn \in {[fn |-> "valueOffset",
                    root |-> Node(NameR, a, <<Node(NameN, b, <<>>)>>),
                    version |-> v, options |-> o] :
                      a \in OffsetObjs, b \in OffsetObjs, v \in Versions,
                      o \in MetadataFormats}
    /\ callOut = None
    /\ IdleCodec /\ IdleLsx /\ IdleLsv

\* the tables as the reader holds them after readBlocks
ReaderTables(file) ==
    [strings |-> decompressBlock(file.meta.strings, file.blocks.strings),
     nodes |-> parseNodes(decompressBlock(file.meta.nodes, file.blocks.nodes),
                          file.meta.metadataFormat),
     attributes |-> parseAttributes(
                        decompressBlock(file.meta.attributes, file.blocks.attributes),
                        file.meta.metadataFormat),
     values |-> decompressBlock(file.meta.values, file.blocks.values)]

\* the attribute loop of buildNodeRecursive: the pairs of an attribute index
\* and the actualOffset its value is decoded at
RECURSIVE ChainOffsets(_, _, _, _)
ChainOffsets(attributes, attrIdx, runningOffset, visited) ==
    IF attrIdx < 0 \/ attrIdx >= Len(attributes) \/ attrIdx \in visited THEN {}
    ELSE LET attrEntry == attributes[attrIdx + 1]
             actualOffset == IF attrEntry.offset # 0 THEN attrEntry.offset
                             ELSE runningOffset
         IN  {<<attrIdx, actualOffset>>}
             \cup ChainOffsets(attributes, attrEntry.nextAttributeIndex,
                               actualOffset + attrEntry.length, visited \cup {attrIdx})

\* the offsets used for the attributes of all nodes
UsedOffsets(t) ==
    IF IsErr(t.nodes) \/ IsErr(t.attributes) THEN {}
    ELSE UNION {ChainOffsets(t.attributes.entries,
                             t.nodes.entries[n].firstAttributeIndex, 0, {}) :
                   n \in 1..Len(t.nodes.entries)}

\* writeLsf(root, path, version, options)
WriteValueOffsets ==
    /\ callIn.fn = "valueOffset" /\ callOut = None
    /\ callOut' = [step |-> "written",
                   file |-> writeLsf(callIn.root, callIn.version, callIn.options)]
    /\ UNCHANGED callIn
    /\ UNCHANGED <<codecVars, lsxVars, lsvVars>>

\* new LSFReader(path).read(): the tables, the offsets used and the tree
ReadValueOffsets ==
    /\ callIn.fn = "valueOffset" /\ callOut # None /\ callOut.step = "written"
    /\ callOut' = [step |-> "read", file |-> callOut.file,
                   tables |-> ReaderTables(callOut.file),
                   used |-> UsedOffsets(ReaderTables(callOut.file)),
                   root |-> LSFRead(callOut.file)]
    /\ UNCHANGED callIn
    /\ UNCHANGED <<codecVars, lsxVars, lsvVars>>

NextOffsets ==
    \/ WriteValueOffsets
    \/ ReadValueOffsets

SpecOffsets == InitOffsets /\ [][NextOffsets]_vars

\* the byte counts of the values of a tree of two nodes, in table order
ValueLengths(root, isBG3) ==
    [i \in 1..Len(root.attributes) |-> getAttributeLength(root.attributes[i], isBG3)]
    \o [i \in 1..Len(root.children[1].attributes) |->
           getAttributeLength(root.children[1].attributes[i], isBG3)]

\* the sum of the first n lengths
SumBefore(lengths, n) == SeqSum(SubSeq(lengths, 1, n))

\* the offsets of the table are the running sums of the lengths and end at
\* the end of the value block
OffsetsTile(t, lengths) ==
    /\ ~IsErr(t.attributes)
    /\ Len(t.attributes.entries) = Len(lengths)
    /\ \A i \in 1..Len(lengths) :
          /\ t.attributes.entries[i].length = lengths[i]
          /\ t.attributes.entries[i].offset = SumBefore(lengths, i - 1)
    /\ SumBefore(lengths, Len(lengths)) = Len(t.values)

\* C20: the value offset of attribute i, stored under format 1 and
\* recomputed by the reader under format 0, is the sum of the lengths of the
\* attributes before it, so that the values tile the value block; the offset
\* the reader decodes each value at is that sum too.
C20_OffsetsAreRunningSums ==
    (callOut # None /\ callIn.fn = "valueOffset" /\ callOut.step = "read") =>
        /\ OffsetsTile(callOut.tables, ValueLengths(callIn.root, callIn.version.major >= 4))
        /\ callOut.used =
              {<<i - 1, SumBefore(ValueLengths(callIn.root, callIn.version.major >= 4), i - 1)>> :
                  i \in 1..Len(callOut.tables.attributes.entries)}

-----------------------------------------------------------------------------
(* Name references: a tree of two nodes is written by writeLsf with the    *)
(* default metadata format, and the reader parses the tables.              *)

\* the empty name, two names of one bucket, and a name of another bucket
RefNames == {<<>>, <<"a">>, <<"c", "j">>, <<"R">>}

\* no attribute, or one attribute of a name
RefObjs == {<<>>} \cup {<<Attribute(n, T_Int, NumV(1))>> : n \in RefNames}

InitRefs ==
    /\ callIn \in {[fn |-> "resolveName",
                    root |-> Node(n, a, <<Node(m, b, <<>>)>>),
                    version |-> v] :
                      n \in RefNames, m \in RefNames, a \in RefObjs, b \in RefObjs,
                      v \in Versions}
    /\ callOut = None
    /\ IdleCodec /\ IdleLsx /\ IdleLsv

\* writeLsf(root, path, version)
WriteNameRefs ==
    /\ callIn.fn = "resolveName" /\ callOut = None
    /\ callOut' = [step |-> "written", file |-> writeLsf(callIn.root, callIn.version, <<>>)]
    /\ UNCHANGED callIn
    /\ UNCHANGED <<codecVars, lsxVars, lsvVars>>

\* the reader's tables of the file
ReadNameRefs ==
    /\ callIn.fn = "resolveName" /\ callOut # None /\ callOut.step = "written"
    /\ callOut' = [step |-> "read", tables |-> ReaderTables(callOut.file)]
    /\ UNCHANGED callIn
    /\ UNCHANGED <<codecVars, lsxVars, lsvVars>>

NextRefs ==
    \/ WriteNameRefs
    \/ ReadNameRefs

SpecRefs == InitRefs /\ [][NextRefs]_vars

\* the names of the nodes and of the attributes of a tree of two nodes, in
\* table order
NodeNamesOf(root) == <<root.name, root.children[1].name>>
AttrNamesOf(root) ==
    [i \in 1..Len(root.attributes) |-> root.attributes[i].name]
    \o [i \in 1..Len(root.children[1].attributes) |-> root.children[1].attributes[i].name]

\* the pairs of a reference and the name it stands for
RefPairs(t, root) ==
    {<<t.nodes.entries[i].nameIndex, NodeNamesOf(root)[i]>> : i \in 1..Len(t.nodes.entries)}
    \cup {<<t.attributes.entries[i].nameIndex, AttrNamesOf(root)[i]>> :
             i \in 1..Len(t.attributes.entries)}

\* the reference addresses an entry of the string table
Addressed(strings, ref) ==
    /\ ref >= 0
    /\ ref \div 65536 < strings.numBuckets
    /\ ref % 65536 < Len(Chain(strings.chains, ref \div 65536))

\* the name references of the tables resolve to the names of the tree, one
\* reference per name
RefsResolve(t, root) ==
    /\ ~IsErr(t.nodes) /\ ~IsErr(t.attributes)
    /\ Len(t.nodes.entries) = Len(NodeNamesOf(root))
    /\ Len(t.attributes.entries) = Len(AttrNamesOf(root))
    /\ \A p \in RefPairs(t, root) :
          Addressed(t.strings, p[1]) /\ resolveName(t.strings, p[1]) = p[2]
    /\ \A p, q \in RefPairs(t, root) : p[2] # q[2] => p[1] # q[1]

\* C21: every name reference of the node table and of the attribute table
\* of a written file addresses an entry of the string table, the entry is
\* the name it stands for and is not empty, and different names have
\* different references.
C21_NameRefsResolveNonEmpty ==
    (callOut # None /\ callIn.fn = "resolveName" /\ callOut.step = "read") =>
        /\ RefsResolve(callOut.tables, callIn.root)
        /\ \A p \in RefPairs(callOut.tables, callIn.root) :
              resolveName(callOut.tables.strings, p[1]) # <<>>

-----------------------------------------------------------------------------
(* The attributes of a node: attributes are set on the object one after    *)
(* the other, as parseNode and buildNodeRecursive do, and Object.keys      *)
(* iterates them.                                                          *)

\* the most insertions into one node
MaxInserts == 3

InsertNames == {<<"b">>, <<"a">>, <<"2">>, <<"1", "0">>}

\* the insertions: the i-th one carries the value i
InsertLists ==
    UNION {{[i \in 1..k |-> Attribute(names[i], T_Int, NumV(i))] :
               names \in [1..k -> InsertNames]} : k \in 1..MaxInserts}

InitInsert ==
    /\ callIn \in {[fn |-> "attributes", list |-> l] : l \in InsertLists}
    /\ callOut = None
    /\ IdleCodec /\ IdleLsx /\ IdleLsv

\* node.attributes[name] = attr for each attribute, then Object.keys
InsertAttributes ==
    /\ callIn.fn = "attributes" /\ callOut = None
    /\ callOut' = [attributes |-> ObjFrom(callIn.list)]
    /\ UNCHANGED callIn
    /\ UNCHANGED <<codecVars, lsxVars, lsvVars>>

NextInsert == InsertAttributes

SpecInsert == InitInsert /\ [][NextInsert]_vars

\* the names of a list in order of first occurrence
RECURSIVE FirstInserted(_)
FirstInserted(list) ==
    IF list = <<>> THEN <<>>
    ELSE LET before == FirstInserted(SubSeq(list, 1, Len(list) - 1))
             name == list[Len(list)].name
         IN  IF \E i \in 1..Len(before) : before[i] = name THEN before
             ELSE Append(before, name)

\* the attribute inserted last under a name
LastInserted(list, name) ==
    list[CHOOSE i \in 1..Len(list) :
            list[i].name = name /\ \A j \in (i + 1)..Len(list) : list[j].name # name]

\* C22: iterating the attributes of a node yields the names in order of
\* first insertion, names that are decimal integers and repeated names
\* included, and each name carries the value inserted last under it.
C22_AttributesInInsertionOrder ==
    (callOut # None /\ callIn.fn = "attributes") =>
        /\ [i \in 1..Len(callOut.attributes) |-> callOut.attributes[i].name]
              = FirstInserted(callIn.list)
        /\ \A i \in 1..Len(callOut.attributes) :
              callOut.attributes[i] = LastInserted(callIn.list, callOut.attributes[i].name)

-----------------------------------------------------------------------------
(* Entries with 64-bit offsets.  An offset is the tuple of its four 16-bit *)
(* words, lowest first; the file list of a package is read, some of its    *)
(* entries carry the deletion marker, and the package is unpacked.         *)

Offset64(n) == <<n % 65536, n \div 65536, 0, 0>>

\* 0xBEEFDEADBEEF
DeletionMarker == <<48879, 57005, 48879, 0>>

\* (file.offsetInFile & 0x0000ffffffffffffn) === 0xbeefdeadbeefn
IsDeletionMarker(offset) ==
    offset[1] = DeletionMarker[1] /\ offset[2] = DeletionMarker[2]
    /\ offset[3] = DeletionMarker[3]

\* the offset of no buffer: what Number(offsetInFile) is compared as when it
\* is 2^30 or more
BeyondEveryBuffer == 1073741824

\* Number(file.offsetInFile)
Number64(offset) ==
    IF offset[3] = 0 /\ offset[4] = 0 /\ offset[2] < 16384
    THEN offset[2] * 65536 + offset[1] ELSE BeyondEveryBuffer

\* extractFile(data, file, 0) of an entry with a 64-bit offset
extractFile64(pkg, file) ==
    IF IsDeletionMarker(file.offsetInFile) THEN [err |-> "is marked as deleted"]
    ELSE extractFile(pkg, [file EXCEPT !.offsetInFile = Number64(@)])

\* the entries of a list, those of the set deleted with the marker as offset
MarkDeleted(files, deleted) ==
    [i \in 1..Len(files) |->
        [files[i] EXCEPT !.offsetInFile =
            IF i \in deleted THEN DeletionMarker ELSE Offset64(@)]]

\* the loop of unpackLsv over the entries
UnpackEntries(pkg, header, files) ==
    Extracted(header, files, [i \in 1..Len(files) |-> extractFile64(pkg, files[i])], FALSE)

UnpackMarked(pkg, header, list, deleted) ==
    IF IsErr(list) THEN list ELSE UnpackEntries(pkg, header, MarkDeleted(list.files, deleted))

DeletedVersions == {10, 18}

InitDeleted ==
    /\ callIn \in UNION {{[fn |-> "unpackLsv", files |-> f, pkgVersion |-> v, deleted |-> d] :
                             v \in DeletedVersions, d \in SUBSET (1..Len(f))} : f \in FileSets}
    /\ callOut = None
    /\ IdleCodec /\ IdleLsx /\ IdleLsv

\* the package of the files as packLsv writes it
PackageOf(files, pkgVersion) ==
    packLsv([files |-> files, manifest |-> <<>>, lsvManifest |-> <<>>], pkgVersion)

\* unpackLsv(inputPath, outputDir) of a package with deleted entries
UnpackDeleted ==
    /\ callIn.fn = "unpackLsv" /\ callOut = None
    /\ callOut' = UnpackMarked(PackageOf(callIn.files, callIn.pkgVersion),
                               readHeader(PackageOf(callIn.files, callIn.pkgVersion)),
                               readFileListV13(PackageOf(callIn.files, callIn.pkgVersion),
                                   readHeader(PackageOf(callIn.files, callIn.pkgVersion))),
                               callIn.deleted)
    /\ UNCHANGED callIn
    /\ UNCHANGED <<codecVars, lsxVars, lsvVars>>

NextDeleted == UnpackDeleted

SpecDeleted == InitDeleted /\ [][NextDeleted]_vars

\* the files of a sequence at the indices outside a set, in order
Kept(files, deleted) == SelectSeq(files, LAMBDA f : \A i \in deleted : files[i] # f)

\* C23: an entry whose offset is the deletion marker is skipped when a
\* package is unpacked: no file is written for it, the other entries are
\* unpacked, and unpacking ends without an error.
C23_DeletedEntriesSkipped ==
    (callOut # None /\ callIn.fn = "unpackLsv") =>
        /\ ~IsErr(callOut)
        /\ callOut.files = Kept(callIn.files, callIn.deleted)

-----------------------------------------------------------------------------
(* Extraction of one entry: the entries of a package of two files are read *)
(* and extractFile is applied to an entry whose fields are those of a      *)
(* written entry or other values.                                          *)

ExtractFiles ==
    <<[name |-> <<"a">>, content |-> Content(1, 3)],
      [name |-> <<"b">>, content |-> Content(2, 112)]>>

\* the entries readFileListV13 returns for the package
EntriesOf(pkg) == readFileListV13(pkg, readHeader(pkg)).files

\* the offsets tried for an entry written at offset at, in a buffer of n bytes
TriedOffsets(at, n) ==
    {Offset64(at), Offset64(n - 1), Offset64(n), <<0, 0, 1, 0>>, DeletionMarker,
     <<48879, 57005, 48879, 1>>}

\* the flags tried: none, a level without a method, zlib, LZ4, an unknown
\* method, and the written ones
TriedFlags(flags) == {0, 32, 1, 2, 7, flags}

\* an entry as the reader returns it: uncompressedSize || sizeOnDisk
EntryRead(e, offset, part, size, uncompressed, flags) ==
    [name |-> e.name, archivePart |-> part, offsetInFile |-> offset, sizeOnDisk |-> size,
     uncompressedSize |-> IF uncompressed # 0 THEN uncompressed ELSE size, flags |-> flags]

TriedEntries(pkg) ==
    UNION {{EntryRead(e, o, p, sz, u, f) :
               o \in TriedOffsets(e.offsetInFile, PkgSize(pkg)), p \in {0, 1},
               sz \in {e.sizeOnDisk, 0, e.sizeOnDisk + 1000},
               u \in {e.uncompressedSize, 1, 0}, f \in TriedFlags(e.flags)} :
             e \in {EntriesOf(pkg)[i] : i \in 1..Len(EntriesOf(pkg))}}

InitExtract ==
    /\ callIn \in UNION {{[fn |-> "extractFile", pkgVersion |-> v, file |-> e] :
                             e \in TriedEntries(PackageOf(ExtractFiles, v))} :
                           v \in DeletedVersions}
    /\ callOut = None
    /\ IdleCodec /\ IdleLsx /\ IdleLsv

\* extractFile(data, file, 0)
ExtractFile ==
    /\ callIn.fn = "extractFile" /\ callOut = None
    /\ callOut' = extractFile64(PackageOf(ExtractFiles, callIn.pkgVersion), callIn.file)
    /\ UNCHANGED callIn
    /\ UNCHANGED <<codecVars, lsxVars, lsvVars>>

NextExtract == ExtractFile

SpecExtract == InitExtract /\ [][NextExtract]_vars

\* the slice of the entry lies inside the buffer
SliceInside(pkg, file) ==
    Number64(file.offsetInFile) + file.sizeOnDisk <= PkgSize(pkg)

\* the bytes of the slice
SliceOf(pkg, file) == ChunkAt(pkg, Number64(file.offsetInFile), file.sizeOnDisk)

\* the first n bytes of a buffer
FirstBytes(buf, n) ==
    IF "raw" \in DOMAIN buf THEN Raw(SubSeq(buf.raw, 1, Min(n, Len(buf.raw))))
    ELSE IF n >= Size(buf) THEN buf
    ELSE [slice |-> buf, length |-> n]

\* the content of a buffer that the library of a method wrote
Decompressed(buf, method) ==
    "method" \in DOMAIN buf /\ buf.method = method

\* an entry of another part, or one whose slice ends behind the buffer,
\* raises; what is returned comes from a slice inside the buffer
ExtractionBounded(pkg, file, result) ==
    /\ (file.archivePart # 0 \/ ~SliceInside(pkg, file)) => IsErr(result)
    /\ ~IsErr(result) => file.archivePart = 0 /\ SliceInside(pkg, file)

Returned(slice, file, result) ==
    IF file.flags = 0 \/ file.uncompressedSize = 0 THEN result = slice
    ELSE IF getCompressionMethod(file.flags) = 0
    THEN result = FirstBytes(slice, file.uncompressedSize)
    ELSE Decompressed(slice, getCompressionMethod(file.flags)) /\ result = slice.data

-----------------------------------------------------------------------------
(* The checksum of an entry                                                 *)

\* the checksum held by entry i of the file list of a package: the field a
\* builder wrote, or nothing when the builder writes no checksum
EntryCrc(pkg, i) == pkg.fileList.data.crcs[i]

\* C25: for every target version from 10 to 16, each entry of the file list
\* written by the packer holds the CRC-32 of that file's compressed payload,
\* the bytes stored in the data block.
C25_EntryHoldsCrcOfPayload ==
    (/\ lsvPkg # None /\ lsvPkg.rev = "part_005" /\ ~IsErr(lsvPkg.file)
     /\ lsvVersion >= 10 /\ lsvVersion <= 16)
        => \A i \in 1..Len(Payloads(lsvPkg.file)) :
              EntryCrc(lsvPkg.file, i) = <<crc32(Payloads(lsvPkg.file)[i].payload)>>

-----------------------------------------------------------------------------
(* Reconstruction of the tree, call by call.  The calls of reconstructTree  *)
(* and buildNodeRecursive are frames of a stack; each step of a loop and    *)
(* each call and return is one step of the run held in callOut.             *)

TableSizes == {1, 2}
ParentIndices == {-1, 0, 1, 2}
FirstIndices == {-2, -1, 0, 2}
NextIndices == {-1, 0, 1, 5}
ChainLengths == {MaxBuildDepth + 1, MaxBuildDepth + 2}

\* the names of the tables: "n" for the nodes, "a" and "b" for the attributes
TableStrings ==
    [numBuckets |-> 1, chains |-> [b \in {0} |-> <<<<"n">>, <<"a">>, <<"b">>>>]]

TableNode(parentIndex, firstAttributeIndex) ==
    [nameIndex |-> 0, parentIndex |-> parentIndex, nextSiblingIndex |-> -1,
     firstAttributeIndex |-> firstAttributeIndex]

TableAttr(nameIndex, nextAttributeIndex) ==
    [nameIndex |-> nameIndex, type |-> T_Bool, length |-> 0, nodeIndex |-> -1,
     nextAttributeIndex |-> nextAttributeIndex, offset |-> 0]

\* tables of one or two nodes and two attributes, every index arbitrary
SmallTables ==
    {[nodes |-> ns, attributes |-> [i \in 1..2 |-> TableAttr(i, nx[i])]] :
        ns \in UNION {[1..n -> {TableNode(p, f) : p \in ParentIndices, f \in FirstIndices}] :
                         n \in TableSizes},
        nx \in [1..2 -> NextIndices]}

\* three nodes under a root whose two attributes link to each other; the
\* other two nodes may be each other's parent
CycleTables ==
    {[nodes |-> <<TableNode(-1, 0), TableNode(p, -1), TableNode(q, -1)>>,
      attributes |-> <<TableAttr(1, 1), TableAttr(2, 0)>>] :
        p \in {-1, 0, 1, 2, 3}, q \in {-1, 0, 1, 2, 3}}

\* a chain of n nodes, each the parent of the next
ChainTables ==
    {[nodes |-> [i \in 1..n |-> TableNode(i - 2, -1)], attributes |-> <<>>] :
        n \in ChainLengths}

InitBuild ==
    /\ \E t \in SmallTables \cup CycleTables \cup ChainTables :
          callIn = [fn |-> "reconstructTree", strings |-> TableStrings,
                    nodes |-> t.nodes, attributes |-> t.attributes, values |-> <<>>]
    /\ callOut = None
    /\ IdleCodec /\ IdleLsx /\ IdleLsv

Running(stack) == [status |-> "running", stack |-> stack, result |-> None]
Thrown(message) == [status |-> "error", stack |-> <<>>, result |-> [err |-> message]]
Finished(node) == [status |-> "tree", stack |-> <<>>, result |-> node]

\* the frame of reconstructTree: the loop over rootIndices
RootsFrame(rootIndices) ==
    [fn |-> "reconstructTree", rootIndices |-> rootIndices, k |-> 1, built |-> <<>>]

\* the frame of a call buildNodeRecursive(nodeIdx, depth) as it is entered
CallFrame(nodeIdx, depth) ==
    [fn |-> "buildNodeRecursive", pc |-> "enter", nodeIdx |-> nodeIdx, depth |-> depth,
     attrIdx |-> -1, runningOffset |-> 0, visitedAttrs |-> {}, visitOrder |-> <<>>,
     i |-> 0, node |-> None]

TopFrame == callOut.stack[Len(callOut.stack)]
WithTop(frame) == Running([callOut.stack EXCEPT ![Len(callOut.stack)] = frame])
IsRunning == callOut # None /\ callOut.status = "running"
InFrame(fn) == IsRunning /\ TopFrame.fn = fn

\* nodes.map((n, i) => (n.parentIndex === -1 ? i : -1)).filter((i) => i >= 0)
RootIndicesOf(nodes) ==
    SelectSeq([i \in 1..Len(nodes) |-> i - 1], LAMBDA i : nodes[i + 1].parentIndex = -1)

\* reconstructTree is called
ReconstructTree ==
    /\ callOut = None
    /\ callOut' = IF Len(callIn.nodes) = 0 THEN Thrown("No nodes found")
                  ELSE IF RootIndicesOf(callIn.nodes) = <<>> THEN Thrown("No root node found")
                  ELSE Running(<<RootsFrame(RootIndicesOf(callIn.nodes))>>)
    /\ UNCHANGED callIn
    /\ UNCHANGED <<codecVars, lsxVars, lsvVars>>

\* reconstructTree calls buildNodeRecursive(idx, 0) for the next root
CallRoot ==
    /\ InFrame("reconstructTree")
    /\ TopFrame.k <= Len(TopFrame.rootIndices)
    /\ callOut' = Running(Append(callOut.stack, CallFrame(TopFrame.rootIndices[TopFrame.k], 0)))
    /\ UNCHANGED callIn
    /\ UNCHANGED <<codecVars, lsxVars, lsvVars>>

\* reconstructTree returns the single root or the virtual root
ReturnTree ==
    /\ InFrame("reconstructTree")
    /\ TopFrame.k > Len(TopFrame.rootIndices)
    /\ callOut' = Finished(IF Len(TopFrame.rootIndices) = 1 THEN TopFrame.built[1]
                           ELSE Node(SaveName, <<>>, TopFrame.built))
    /\ UNCHANGED callIn
    /\ UNCHANGED <<codecVars, lsxVars, lsvVars>>

\* the guard left out
DepthNeverExceeded(depth) == FALSE

\* depth > 100
DepthExceeded(depth) == depth > MaxBuildDepth

\* the head of buildNodeRecursive: the depth guard, the node and the first
\* attribute index
EnterNode ==
    /\ InFrame("buildNodeRecursive") /\ TopFrame.pc = "enter"
    /\ callOut' =
         IF DepthExceeded(TopFrame.depth) THEN Thrown("Build recursion depth exceeded")
         ELSE WithTop([TopFrame EXCEPT
                 !.pc = "attrs",
                 !.attrIdx = callIn.nodes[TopFrame.nodeIdx + 1].firstAttributeIndex,
                 !.node = Node(resolveName(callIn.strings,
                                           callIn.nodes[TopFrame.nodeIdx + 1].nameIndex),
                               <<>>, <<>>)])
    /\ UNCHANGED callIn
    /\ UNCHANGED <<codecVars, lsxVars, lsvVars>>

\* the frame after the attribute at attrIdx is read with the value it holds
AttrRead(frame, attrEntry, actualOffset, value) ==
    [frame EXCEPT
        !.visitedAttrs = @ \cup {frame.attrIdx},
        !.visitOrder = Append(@, frame.attrIdx),
        !.node = [@ EXCEPT !.attributes =
                     ObjSet(@, Attribute(resolveName(callIn.strings, attrEntry.nameIndex),
                                         attrEntry.type, value))],
        !.runningOffset = actualOffset + attrEntry.length,
        !.attrIdx = attrEntry.nextAttributeIndex]

AttrReadAt(frame, attrEntry, actualOffset) ==
    IF IsErr(readAttributeValue(callIn.values, attrEntry, actualOffset, FALSE))
    THEN Thrown(readAttributeValue(callIn.values, attrEntry, actualOffset, FALSE).err)
    ELSE WithTop(AttrRead(frame, attrEntry, actualOffset,
                          readAttributeValue(callIn.values, attrEntry, actualOffset, FALSE)))

\* one turn of the while loop over the attribute chain, or its end
ReadAttribute ==
    /\ InFrame("buildNodeRecursive") /\ TopFrame.pc = "attrs"
    /\ callOut' =
         IF \/ TopFrame.attrIdx = -1
            \/ TopFrame.attrIdx >= Len(callIn.attributes)
            \/ TopFrame.attrIdx \in TopFrame.visitedAttrs
         THEN WithTop([TopFrame EXCEPT !.pc = "children", !.i = 0])
         ELSE IF TopFrame.attrIdx < -1 THEN Thrown("TypeError")
         ELSE AttrReadAt(TopFrame, callIn.attributes[TopFrame.attrIdx + 1],
                         IF callIn.attributes[TopFrame.attrIdx + 1].offset # 0
                         THEN callIn.attributes[TopFrame.attrIdx + 1].offset
                         ELSE TopFrame.runningOffset)
    /\ UNCHANGED callIn
    /\ UNCHANGED <<codecVars, lsxVars, lsvVars>>

\* one turn of the for loop over the nodes: a child is called, any other
\* node passed over
NextChild ==
    /\ InFrame("buildNodeRecursive") /\ TopFrame.pc = "children"
    /\ TopFrame.i < Len(callIn.nodes)
    /\ callOut' =
         IF /\ callIn.nodes[TopFrame.i + 1].parentIndex = TopFrame.nodeIdx
            /\ TopFrame.i # TopFrame.nodeIdx
         THEN Running(Append(callOut.stack, CallFrame(TopFrame.i, TopFrame.depth + 1)))
         ELSE WithTop([TopFrame EXCEPT !.i = @ + 1])
    /\ UNCHANGED callIn
    /\ UNCHANGED <<codecVars, lsxVars, lsvVars>>

\* the caller's frame once the node is returned to it and pushed
Pushed(caller, node) ==
    IF caller.fn = "reconstructTree"
    THEN [caller EXCEPT !.built = Append(@, node), !.k = @ + 1]
    ELSE [caller EXCEPT !.node = [@ EXCEPT !.children = Append(@, node)], !.i = @ + 1]

\* buildNodeRecursive returns its node
ReturnNode ==
    /\ InFrame("buildNodeRecursive") /\ TopFrame.pc = "children"
    /\ TopFrame.i >= Len(callIn.nodes)
    /\ callOut' = Running(
          [j \in 1..(Len(callOut.stack) - 1) |->
              IF j = Len(callOut.stack) - 1
              THEN Pushed(callOut.stack[j], TopFrame.node)
              ELSE callOut.stack[j]])
    /\ UNCHANGED callIn
    /\ UNCHANGED <<codecVars, lsxVars, lsvVars>>

NextBuild ==
    \/ ReconstructTree
    \/ CallRoot
    \/ ReturnTree
    \/ EnterNode
    \/ ReadAttribute
    \/ NextChild
    \/ ReturnNode

SpecBuild == InitBuild /\ [][NextBuild]_vars

\* the reader runs on one thread and is not interrupted: a step that can be
\* taken is taken
SpecBuildFair == SpecBuild /\ WF_vars(NextBuild)

\* the frames of buildNodeRecursive that passed the depth guard
Building(stack) ==
    {j \in 1..Len(stack) : stack[j].fn = "buildNodeRecursive" /\ stack[j].pc # "enter"}

NoIndexTwice(order) ==
    \A x \in 1..Len(order) : \A y \in 1..Len(order) : order[x] = order[y] => x = y

\* no node reads an attribute index twice, no node is built below depth 100,
\* and so at most 101 nodes are being built at once
BuildBounded ==
    (callOut # None /\ callIn.fn = "reconstructTree") =>
        /\ \A j \in Building(callOut.stack) :
              /\ NoIndexTwice(callOut.stack[j].visitOrder)
              /\ callOut.stack[j].depth <= MaxBuildDepth
        /\ Cardinality(Building(callOut.stack)) <= MaxBuildDepth + 1

BuildEnded ==
    /\ callOut # None /\ callIn.fn = "reconstructTree"
    /\ callOut.stack = <<>>
    /\ \/ callOut.status = "tree" /\ ~IsErr(callOut.result)
       \/ callOut.status = "error" /\ IsErr(callOut.result)

\* C26: for every node table and attribute table, whatever parentIndex,
\* firstAttributeIndex and nextAttributeIndex hold (self-references, cycles,
\* indices that point nowhere), the reconstruction ends with a tree or with
\* an error; within one node no attribute index is read twice, and nodes are
\* built at no more than 101 levels (depths 0 to 100).
C26_ReconstructionEnds == []BuildBounded /\ <>BuildEnded

\* a node left its attribute loop at an index it had already read
C26_ChainLeftAtVisitedIndex ==
    /\ callOut # None /\ callIn.fn = "reconstructTree"
    /\ \E j \in Building(callOut.stack) :
          /\ callOut.stack[j].pc = "children"
          /\ callOut.stack[j].attrIdx \in callOut.stack[j].visitedAttrs

-----------------------------------------------------------------------------
(* LZ4 frames.  decompressLZ4Frame walks the blocks of a frame; a stored    *)
(* block is copied, a compressed one handed to the block decoder of the     *)
(* lz4 package, with the dictionary when the frame's blocks depend on each  *)
(* other and the package offers uncompressWithDict.                         *)

DICT_SIZE == 65536

\* 0x184D2204, little-endian
Lz4Magic == <<4, 34, 77, 24>>

\* an LZ4 block is a run of sequences: a token, the literals, and unless the
\* block ends there a two-byte offset and a match copied from the bytes
\* decoded before, which start with the dictionary
RECURSIVE ExtLen(_, _, _)
ExtLen(block, i, acc) ==
    IF i > Len(block) THEN [len |-> acc, next |-> i]
    ELSE IF block[i] = 255 THEN ExtLen(block, i + 1, acc + 255)
    ELSE [len |-> acc + block[i], next |-> i + 1]

LenAt(block, i, nibble) ==
    IF nibble = 15 THEN ExtLen(block, i, 15) ELSE [len |-> nibble, next |-> i]

RECURSIVE DecodeSeq(_, _, _, _)
CopyMatch(block, ml, offset, hist, start) ==
    DecodeSeq(block, ml.next,
              hist \o [k \in 1..(ml.len + 4) |->
                         hist[(Len(hist) - offset) + ((k - 1) % offset) + 1]],
              start)

Match(block, i, offset, nibble, hist, start) ==
    IF offset = 0 \/ offset > Len(hist) THEN [err |-> -1]
    ELSE CopyMatch(block, LenAt(block, i, nibble), offset, hist, start)

AfterLiterals(block, lit, nibble, hist, start) ==
    IF lit.next + lit.len - 1 > Len(block) THEN [err |-> -1]
    ELSE IF lit.next + lit.len > Len(block)
    THEN [out |-> SubSeq(hist \o SubSeq(block, lit.next, lit.next + lit.len - 1),
                         start + 1, Len(hist) + lit.len)]
    ELSE IF lit.next + lit.len + 1 > Len(block) THEN [err |-> -1]
    ELSE Match(block, lit.next + lit.len + 2,
               block[lit.next + lit.len] + 256 * block[lit.next + lit.len + 1],
               nibble, hist \o SubSeq(block, lit.next, lit.next + lit.len - 1), start)

DecodeSeq(block, i, hist, start) ==
    IF i > Len(block) THEN [out |-> SubSeq(hist, start + 1, Len(hist))]
    ELSE AfterLiterals(block, LenAt(block, i + 1, block[i] \div 16), block[i] % 16,
                       hist, start)

\* lz4.decodeBlock(blockData, out): the bytes decoded, or a negative code
decodeBlock(blockData) == DecodeSeq(blockData, 1, <<>>, 0)

\* uncompressWithDict(blockData, out, dictBuf)
uncompressWithDict(blockData, dictBuf) == DecodeSeq(blockData, 1, dictBuf, Len(dictBuf))

\* the closure decompressBlock of decompressLZ4Frame; hasBinding tells
\* whether the lz4 package offers uncompressWithDict
UsesDict(run, hasBinding) ==
    ~run.blockIndependence /\ Len(run.dictBuf) > 0 /\ hasBinding

decompressFrameBlock(run, blockData, hasBinding) ==
    IF UsesDict(run, hasBinding) THEN uncompressWithDict(blockData, run.dictBuf)
    ELSE decodeBlock(blockData)

\* raw[pos] of a buffer, 0 when there is no such byte (undefined >> n is 0)
RawAt(raw, pos) == IF pos < Len(raw) THEN raw[pos + 1] ELSE 0

Bit(byte, n) == (byte \div (2 ^ n)) % 2

\* the head of decompressLZ4Frame: magic, FLG and BD, the header fields
\* skipped
FrameStart(raw, flg) ==
    IF flg \div 64 # 1 THEN [status |-> "error", result |-> [err |-> "LZ4 frame version not supported"]]
    ELSE [status |-> "running",
          pos |-> 6 + 8 * Bit(flg, 3) + 4 * Bit(flg, 0) + 1,
          blockIndependence |-> Bit(flg, 5) # 0,
          blockChecksum |-> Bit(flg, 4),
          chunks |-> <<>>, dictBuf |-> <<>>, lastDecode |-> None, result |-> None]

FrameHeader(raw) ==
    IF Len(raw) < 4 THEN [status |-> "error", result |-> [err |-> "ERR_OUT_OF_RANGE"]]
    ELSE IF SubSeq(raw, 1, 4) # Lz4Magic
    THEN [status |-> "error", result |-> [err |-> "Invalid LZ4 frame magic"]]
    ELSE FrameStart(raw, RawAt(raw, 4))

\* return Buffer.concat(chunks)
FrameReturned(run) == [run EXCEPT !.status = "returned", !.result = [out |-> Flatten(run.chunks)]]

\* chunks.push(chunk); dictBuf = Buffer.concat([dictBuf, chunk]).subarray(-DICT_SIZE)
ChunkPushed(run, chunk, pos) ==
    [run EXCEPT !.chunks = Append(@, chunk),
                !.dictBuf = Subarray(run.dictBuf \o chunk, -DICT_SIZE,
                                     Len(run.dictBuf) + Len(chunk)),
                !.pos = pos]

\* a compressed block: decoded, and the chunk pushed unless the code is
\* negative
BlockDecoded(run, decode, decoded, pos) ==
    IF IsErr(decoded)
    THEN [run EXCEPT !.status = "error", !.lastDecode = decode,
                     !.result = [err |-> "LZ4 block decompression failed"]]
    ELSE [ChunkPushed(run, decoded.out, pos) EXCEPT !.lastDecode = decode]

BlockData(raw, run, isUncompressed, blockData, pos, hasBinding) ==
    IF isUncompressed THEN ChunkPushed(run, blockData, pos)
    ELSE BlockDecoded(run,
                      [withDict |-> UsesDict(run, hasBinding),
                       dict |-> IF UsesDict(run, hasBinding) THEN run.dictBuf ELSE <<>>,
                       before |-> Len(Flatten(run.chunks))],
                      decompressFrameBlock(run, blockData, hasBinding), pos)

\* one turn of the while loop: the block at pos (past its size word)
BlockAt(raw, run, pos, isUncompressed, size, hasBinding) ==
    IF pos + size > Len(raw) THEN FrameReturned(run)
    ELSE BlockData(raw, run, isUncompressed, SubSeq(raw, pos + 1, pos + size),
                   pos + size + 4 * run.blockChecksum, hasBinding)

BlockTurn(raw, run, hasBinding) ==
    IF SubSeq(raw, run.pos + 1, run.pos + 4) = <<0, 0, 0, 0>> THEN FrameReturned(run)
    ELSE BlockAt(raw, run, run.pos + 4, raw[run.pos + 4] >= 128,
                 raw[run.pos + 1] + 256 * raw[run.pos + 2] + 65536 * raw[run.pos + 3]
                    + 16777216 * (raw[run.pos + 4] % 128),
                 hasBinding)

\* the frames decompressed: a header, blocks, an end
BlockSizeWord(size, stored) ==
    <<size % 256, (size \div 256) % 256, (size \div 65536) % 256,
      ((size \div 16777216) % 128) + (IF stored THEN 128 ELSE 0)>>

StoredBlock(bytes) == BlockSizeWord(Len(bytes), TRUE) \o bytes
CompressedBlock(bytes) == BlockSizeWord(Len(bytes), FALSE) \o bytes

\* three literals
LiteralsBlock == CompressedBlock(<<48, 1, 2, 3>>)
\* four bytes copied from three bytes back, then the literal 9
MatchBlock == CompressedBlock(<<0, 3, 0, 16, 9>>)
\* more bytes than a dictionary holds
LongBlock == StoredBlock([i \in 1..(DICT_SIZE + 2) |-> i % 251])

MaxBlocks == 3

SmallBlocks == {StoredBlock(<<5, 6, 7>>), StoredBlock(<<>>), LiteralsBlock, MatchBlock}

BlockLists ==
    UNION {[1..n -> SmallBlocks] : n \in 0..MaxBlocks}
    \cup {<<LongBlock, MatchBlock>>, <<StoredBlock(<<5, 6, 7>>), LongBlock, MatchBlock>>}

\* FLG: version 1 with dependent blocks, with independent blocks, with
\* block checksums, with a content size and a dictionary id; version 0
FrameFlags == {64, 96, 80, 73, 0}

\* the end of a frame: the end mark, the end mark and a content checksum,
\* nothing, or a size word that reaches past the end
FrameEnds == {<<0, 0, 0, 0>>, <<0, 0, 0, 0, 1, 2, 3, 4>>, <<>>, <<9, 0, 0, 0, 1, 2>>}

\* the bytes of a frame
FrameBytes(flg, blocks, end) ==
    Lz4Magic \o <<flg, 64>>
    \o [i \in 1..(8 * Bit(flg, 3) + 4 * Bit(flg, 0)) |-> 0] \o <<0>>
    \o Flatten([i \in 1..Len(blocks) |->
                  blocks[i] \o [k \in 1..(4 * Bit(flg, 4)) |-> 0]])
    \o end

OtherBuffers == {<<>>, <<4, 34>>, <<1, 2, 3, 4, 5>>, Lz4Magic, Lz4Magic \o <<64>>}

InitFrame ==
    /\ \E raw \in {FrameBytes(flg, blocks, end) :
                      flg \in FrameFlags, blocks \in BlockLists, end \in FrameEnds}
                  \cup OtherBuffers :
          \E hasBinding \in BOOLEAN :
             callIn = [fn |-> "decompressLZ4Frame", raw |-> raw,
                       uncompressWithDict |-> hasBinding]
    /\ callOut = None
    /\ IdleCodec /\ IdleLsx /\ IdleLsv

\* decompressLZ4Frame is called and reads the frame header
ReadFrameHeader ==
    /\ callOut = None
    /\ callOut' = FrameHeader(callIn.raw)
    /\ UNCHANGED callIn
    /\ UNCHANGED <<codecVars, lsxVars, lsvVars>>

\* one turn of the block loop
ReadBlock ==
    /\ callOut # None /\ callOut.status = "running"
    /\ callOut.pos < Len(callIn.raw) - 4
    /\ callOut' = BlockTurn(callIn.raw, callOut, callIn.uncompressWithDict)
    /\ UNCHANGED callIn
    /\ UNCHANGED <<codecVars, lsxVars, lsvVars>>

\* the loop condition fails and the output is returned
ReturnFrame ==
    /\ callOut # None /\ callOut.status = "running"
    /\ ~(callOut.pos < Len(callIn.raw) - 4)
    /\ callOut' = FrameReturned(callOut)
    /\ UNCHANGED callIn
    /\ UNCHANGED <<codecVars, lsxVars, lsvVars>>

NextFrame ==
    \/ ReadFrameHeader
    \/ ReadBlock
    \/ ReturnFrame

SpecFrame == InitFrame /\ [][NextFrame]_vars

\* the decoder runs on one thread and is not interrupted
SpecFrameFair == SpecFrame /\ WF_vars(NextFrame)

\* buf is the last min(DICT_SIZE, Len(out)) bytes of out
IsTailOf(buf, out) ==
    /\ Len(buf) = Min(DICT_SIZE, Len(out))
    /\ \A k \in 1..Len(buf) : buf[k] = out[Len(out) - Len(buf) + k]

InFrameRun == callOut # None /\ callIn.fn = "decompressLZ4Frame" /\ "chunks" \in DOMAIN callOut

\* after each block the dictionary is the tail of the output so far
DictionaryIsTail == InFrameRun => IsTailOf(callOut.dictBuf, Flatten(callOut.chunks))

\* a compressed block of a frame with dependent blocks that follows output
\* was decoded against the tail of that output
DecodedAgainstDictionary ==
    (/\ InFrameRun /\ callOut.lastDecode # None
     /\ ~callOut.blockIndependence /\ callOut.lastDecode.before > 0)
        => /\ callOut.lastDecode.withDict
           /\ IsTailOf(callOut.lastDecode.dict,
                       SubSeq(Flatten(callOut.chunks), 1, callOut.lastDecode.before))

FrameEnded ==
    callOut # None /\ callIn.fn = "decompressLZ4Frame" /\ callOut.status # "running"

\* C27: while a frame is decompressed the dictionary is, after each block,
\* the last min(65536, n) bytes of the n bytes of output; each compressed
\* block of a frame with block-independence 0 that follows non-empty output
\* is decoded against that dictionary; and the block loop ends for every
\* input buffer.
C27_DictionaryKeptAndUsed ==
    [](DictionaryIsTail /\ DecodedAgainstDictionary) /\ <>FrameEnded

-----------------------------------------------------------------------------
(* The stored metadata format                                               *)

\* the node table and the attribute table of a written file, in 32-bit words
WrittenNodeWords(file) == decompressBlock(file.meta.nodes, file.blocks.nodes)
WrittenAttrWords(file) == decompressBlock(file.meta.attributes, file.blocks.attributes)

\* the nodes and the attributes writeLsf lays out for a tree
NodesWritten(root) == Len(FlattenRegions(RegionsOf(root), 0))
AttrsWritten(root) ==
    SeqSum([n \in 1..NodesWritten(root) |->
               Len(FlattenRegions(RegionsOf(root), 0)[n].node.attributes)])

\* entries of 4 * words bytes hold the tables of the file
LayoutUsed(file, root, words) ==
    /\ Len(WrittenNodeWords(file)) = words * NodesWritten(root)
    /\ Len(WrittenAttrWords(file)) = words * AttrsWritten(root)

\* the reader, parsing under the stored format, finds as many nodes and
\* attributes as were written
SameCountsParsed(file, root) ==
    /\ ~IsErr(parseNodes(WrittenNodeWords(file), file.meta.metadataFormat))
    /\ ~IsErr(parseAttributes(WrittenAttrWords(file), file.meta.metadataFormat))
    /\ Len(parseNodes(WrittenNodeWords(file), file.meta.metadataFormat).entries)
         = NodesWritten(root)
    /\ Len(parseAttributes(WrittenAttrWords(file), file.meta.metadataFormat).entries)
         = AttrsWritten(root)

\* C28: for every version and every metadataFormat option, the metadataFormat
\* stored in the metadata block denotes the layout of the node and attribute
\* entries that were written, 1 for 16-byte entries and 0 for 12-byte ones,
\* and the reader parses as many nodes and attributes as were written.
C28_StoredFormatIsLayoutUsed ==
    (lsf # None /\ ~IsErr(lsf)) =>
        /\ lsf.meta.metadataFormat \in {0, 1}
        /\ LayoutUsed(lsf, tree, IF lsf.meta.metadataFormat = 1 THEN 4 ELSE 3)
        /\ SameCountsParsed(lsf, tree)

-----------------------------------------------------------------------------
(* Packing and unpacking                                                    *)

\* the files packLsv packs, in the order it packs them, with their contents
FilesPacked(dir) ==
    [i \in 1..Len(scanDirectoryWithManifest(dir).files) |->
        [name |-> scanDirectoryWithManifest(dir).files[i].name,
         content |-> readFileSync(dir, scanDirectoryWithManifest(dir).files[i].name)]]

\* C29: for every list of files and every target version among 13, 15, 16
\* and 18, unpacking the package written by packLsv yields the same file
\* names in the same order with byte-identical contents.
C29_UnpackYieldsPackedFiles ==
    (/\ lsvUnpacked # None /\ lsvPkg.rev = "part_005"
     /\ lsvVersion \in {13, 15, 16, 18})
        => /\ ~IsErr(lsvUnpacked)
           /\ lsvUnpacked.files = FilesPacked(lsvDir)

-----------------------------------------------------------------------------
(* The engine version of a file                                             *)

Majors == {0, 3, 4, 5, 127, 128}
Minors == {0, 15, 16, 255, 256}
Revisions == {0, 255, 256, 65535, 65536}
Builds == {0, 255, 256, 331, 65536, 2147483647}

EngineVersions ==
    [major : Majors, minor : Minors, revision : Revisions, build : Builds]

\* the tree that is written
VersionedTree == Node(<<"R">>, <<>>, <<>>)

InitVersion ==
    /\ \E v \in EngineVersions : \E o \in MetadataFormats :
          callIn = [fn |-> "getEngineVersion", version |-> v, options |-> o]
    /\ callOut = None
    /\ IdleCodec /\ IdleLsx /\ IdleLsv

\* writeLsf(root, path, version, options)
WriteVersioned ==
    /\ callOut = None
    /\ callOut' = [file |-> writeLsf(VersionedTree, callIn.version, callIn.options),
                   header |-> None, read |-> None]
    /\ UNCHANGED callIn
    /\ UNCHANGED <<codecVars, lsxVars, lsvVars>>

\* LSFReader.readHeader: the magic, the LSF version, the engine version as
\* 64 or 32 bits, and the offset behind the header
LSFReadHeader(file) ==
    IF file.header.magic # "LSOF" THEN [err |-> "Invalid LSF magic"]
    ELSE [magic |-> file.header.magic, version |-> file.header.version,
          engineVersion |-> file.header.engineVersion,
          offset |-> IF file.header.version >= 5 THEN 16 ELSE 12]

ReadVersionedHeader ==
    /\ callOut # None /\ ~IsErr(callOut.file) /\ callOut.header = None
    /\ callOut' = [callOut EXCEPT !.header = LSFReadHeader(callOut.file)]
    /\ UNCHANGED callIn
    /\ UNCHANGED <<codecVars, lsxVars, lsvVars>>

\* reader.getEngineVersion()
GetEngineVersion ==
    /\ callOut # None /\ callOut.header # None /\ ~IsErr(callOut.header)
    /\ callOut.read = None
    /\ callOut' = [callOut EXCEPT !.read = getEngineVersion([header |-> callOut.header])]
    /\ UNCHANGED callIn
    /\ UNCHANGED <<codecVars, lsxVars, lsvVars>>

NextVersion ==
    \/ WriteVersioned
    \/ ReadVersionedHeader
    \/ GetEngineVersion

SpecVersion == InitVersion /\ [][NextVersion]_vars

\* the fields fit the bit fields of the header the version is written in
FieldsFit(v) ==
    IF v.major < 4
    THEN v.minor < 16 /\ v.revision < 256 /\ v.build < 256
    ELSE v.major <= 127 /\ v.minor < 256 /\ v.revision < 65536

\* C30: the version getEngineVersion reads from a written file is the
\* version given to writeLsf whenever its fields fit the bit fields of the
\* header; the 12-byte header with LSF version 3 is written exactly when
\* major < 4, the 16-byte header otherwise, and the reader goes on behind it.
C30_EngineVersionReadBack ==
    (callOut # None /\ callIn.fn = "getEngineVersion") =>
        /\ ~IsErr(callOut.file)
        /\ (callOut.file.header.size = 12 /\ callOut.file.header.version = 3)
              <=> callIn.version.major < 4
        /\ callOut.file.header.size = 16 <=> callIn.version.major >= 4
        /\ callOut.header # None =>
              /\ ~IsErr(callOut.header)
              /\ callOut.header.offset = callOut.file.header.size
        /\ (callOut.read # None /\ FieldsFit(callIn.version))
              => callOut.read = callIn.version

\* the largest version of the 64-bit form was written and read back
C30_LargestVersionReadBack ==
    /\ callOut # None /\ callIn.fn = "getEngineVersion"
    /\ callIn.version = [major |-> 127, minor |-> 255, revision |-> 65535,
                         build |-> 2147483647]
    /\ callOut.read = callIn.version

=============================================================================
